---- MODULE Spec2Model ----
(***************************************************************************)
(* RoadVision AI Pro: the 2D detection renderer (renderer.js,              *)
(* class DetectionRenderer) as a state machine.                            *)
(*                                                                         *)
(* Units.  animationProgress, the stagger delay and the animation window   *)
(* are held in thousandths (0.025 -> 25, 0.08 -> 80, 0.6 -> 600,           *)
(* 1.0 -> 1000); a box's local progress is held as its numerator over      *)
(* Duration.  The wrapper's layout size is held in tenths of a CSS pixel   *)
(* and window.devicePixelRatio in quarters.  The coordinate transform      *)
(* (_getTransform, _mapBox) is computed on IEEE 754 Numbers.               *)
(*                                                                         *)
(* The thousandths are exact where the program's Numbers are rounded.  The *)
(* rounded sums of 0.025 reach 1 at the same (40th) increment, and a box's *)
(* rounded local progress is <= 0, or >= 1, in the same frames as the      *)
(* exact one, but for box 5 at increment 16 and box 10 at increment 32,    *)
(* where the program computes a progress of about 1e-16 for the exact 0.   *)
(***************************************************************************)
EXTENDS Integers, Sequences, FiniteSets, TLC

(* ----------------------------------------------------------------------- *)
(* Bounds of the model                                                     *)
(* ----------------------------------------------------------------------- *)
\* longest detection list handed to drawDetections / init3DView
MaxBoxes == 14
\* most animation-frame requests outstanding at once
MaxPending == 2
\* most .ai-bbox elements of the hero preview, present or scheduled
MaxPreviewBoxes == 5

(* ----------------------------------------------------------------------- *)
(* Program constants                                                       *)
(* ----------------------------------------------------------------------- *)
\* this.animationProgress += 0.025
Step == 25
\* delay = index * 0.08
Stagger == 80
\* (animationProgress - delay) / 0.6
Duration == 600
\* animationProgress >= 1, Math.min(1, ...)
One == 1000
\* Math.min(window.devicePixelRatio || 1, 2), in quarters
DprCap == 8

Min(a, b) == IF a <= b THEN a ELSE b
Max(a, b) == IF a >= b THEN a ELSE b

(* ----------------------------------------------------------------------- *)
(* Numbers.  A JavaScript Number is an IEEE 754 binary64 value; those the  *)
(* transform works with are finite and far from the exponent limits, so a  *)
(* Number is held as [sign, man, exp] with value sign * man * 2^exp, man   *)
(* odd (zero: man empty), and every operation rounds its exact result to   *)
(* 53 significant bits, ties to even.  man is a natural number written as  *)
(* a sequence of limbs, least significant first, in base 2^LimbBits.       *)
(* ----------------------------------------------------------------------- *)
\* significand bits of a binary64 value
Precision == 53
\* bits per limb; a product of two limbs and a carry stays below 2^31
LimbBits == 15
Base == 2^LimbBits

RECURSIVE NFromInt(_)
NFromInt(k) == IF k = 0 THEN <<>> ELSE <<k % Base>> \o NFromInt(k \div Base)

RECURSIVE NNorm(_)
NNorm(a) ==
    IF a = <<>> THEN a
    ELSE IF a[Len(a)] = 0 THEN NNorm(SubSeq(a, 1, Len(a) - 1)) ELSE a

Limb(a, i) == IF i <= Len(a) THEN a[i] ELSE 0

RECURSIVE NAddFrom(_, _, _, _)
NAddFrom(a, b, i, carry) ==
    IF i > Len(a) /\ i > Len(b)
    THEN IF carry = 0 THEN <<>> ELSE <<carry>>
    ELSE LET s == Limb(a, i) + Limb(b, i) + carry
         IN  <<s % Base>> \o NAddFrom(a, b, i + 1, s \div Base)

NAdd(a, b) == NAddFrom(a, b, 1, 0)

\* a - b for a >= b
RECURSIVE NSubFrom(_, _, _, _)
NSubFrom(a, b, i, borrow) ==
    IF i > Len(a) THEN <<>>
    ELSE LET d == a[i] - Limb(b, i) - borrow
         IN  IF d < 0 THEN <<d + Base>> \o NSubFrom(a, b, i + 1, 1)
             ELSE <<d>> \o NSubFrom(a, b, i + 1, 0)

NSub(a, b) == NNorm(NSubFrom(a, b, 1, 0))

RECURSIVE NCmpFrom(_, _, _)
NCmpFrom(a, b, i) ==
    IF i = 0 THEN 0
    ELSE IF a[i] # b[i] THEN (IF a[i] < b[i] THEN -1 ELSE 1)
    ELSE NCmpFrom(a, b, i - 1)

\* -1, 0, 1 as a < b, a = b, a > b
NCmp(a, b) ==
    IF Len(a) # Len(b) THEN (IF Len(a) < Len(b) THEN -1 ELSE 1)
    ELSE NCmpFrom(a, b, Len(a))

RECURSIVE NMulSmallFrom(_, _, _, _)
NMulSmallFrom(a, k, i, carry) ==
    IF i > Len(a)
    THEN IF carry = 0 THEN <<>> ELSE <<carry>>
    ELSE LET p == a[i] * k + carry
         IN  <<p % Base>> \o NMulSmallFrom(a, k, i + 1, p \div Base)

\* a * k for a limb k
NMulSmall(a, k) == IF k = 0 THEN <<>> ELSE NMulSmallFrom(a, k, 1, 0)

ShiftLimbs(a, n) == IF a = <<>> THEN a ELSE [i \in 1..n |-> 0] \o a

RECURSIVE NMulFrom(_, _, _)
NMulFrom(a, b, j) ==
    IF j > Len(b) THEN <<>>
    ELSE NAdd(ShiftLimbs(NMulSmall(a, b[j]), j - 1), NMulFrom(a, b, j + 1))

NMul(a, b) == NMulFrom(a, b, 1)

\* a * 2^n
NShl(a, n) == ShiftLimbs(NMulSmall(a, 2^(n % LimbBits)), n \div LimbBits)

\* floor(a / 2^n)
NShr(a, n) ==
    LET d == n \div LimbBits
        r == n % LimbBits
        hi == IF d >= Len(a) THEN <<>> ELSE SubSeq(a, d + 1, Len(a))
    IN  NNorm([i \in 1..Len(hi) |->
                  (hi[i] \div 2^r) + (Limb(hi, i + 1) % 2^r) * 2^(LimbBits - r)])

\* bit n of a, bit 0 the least significant
NBit(a, n) == (Limb(a, n \div LimbBits + 1) \div 2^(n % LimbBits)) % 2

RECURSIVE Bits(_)
Bits(k) == IF k = 0 THEN 0 ELSE 1 + Bits(k \div 2)

NBitLen(a) == IF a = <<>> THEN 0 ELSE (Len(a) - 1) * LimbBits + Bits(a[Len(a)])

\* the n low bits of a are all 0
NLowZero(a, n) == \A i \in 0..(n - 1) : NBit(a, i) = 0

\* trailing zero bits of a > 0, counted from bit n
RECURSIVE NTrailingZeros(_, _)
NTrailingZeros(a, n) == IF NBit(a, n) = 1 THEN n ELSE NTrailingZeros(a, n + 1)

\* division of n by a limb d > 0, from limb i of n down with the remainder r
\* of the limbs above: [q, r]
RECURSIVE NDivModFrom(_, _, _, _)
NDivModFrom(n, d, i, r) ==
    IF i = 0 THEN [q |-> <<>>, r |-> r]
    ELSE LET cur == r * Base + n[i]
             rest == NDivModFrom(n, d, i - 1, cur % d)
         IN  [q |-> Append(rest.q, cur \div d), r |-> rest.r]

NDivMod(n, d) ==
    LET qr == NDivModFrom(n, d, Len(n), 0)
    IN  [q |-> NNorm(qr.q), r |-> qr.r]

\* the largest digit q in lo..hi with q * d <= r, for bignums r < d * Base
RECURSIVE NDigit(_, _, _, _)
NDigit(r, d, lo, hi) ==
    IF lo = hi THEN lo
    ELSE LET mid == (lo + hi + 1) \div 2
         IN  IF NCmp(NMulSmall(d, mid), r) <= 0
             THEN NDigit(r, d, mid, hi)
             ELSE NDigit(r, d, lo, mid - 1)

\* long division of n by d > 0, from limb i of n down with the remainder r
\* of the limbs above: [q, r]
RECURSIVE NLongDivFrom(_, _, _, _)
NLongDivFrom(n, d, i, r) ==
    IF i = 0 THEN [q |-> <<>>, r |-> r]
    ELSE LET cur == NNorm(<<n[i]>> \o r)
             digit == NDigit(cur, d, 0, Base - 1)
             rest == NLongDivFrom(n, d, i - 1, NSub(cur, NMulSmall(d, digit)))
         IN  [q |-> Append(rest.q, digit), r |-> rest.r]

NLongDiv(n, d) ==
    LET qr == NLongDivFrom(n, d, Len(n), <<>>)
    IN  [q |-> NNorm(qr.q), r |-> qr.r]

FZero == [sign |-> 1, man |-> <<>>, exp |-> 0]

\* the Number sign * man * 2^exp with man made odd
Canon(sign, man, exp) ==
    IF man = <<>> THEN FZero
    ELSE LET tz == NTrailingZeros(man, 0)
         IN  [sign |-> sign, man |-> NShr(man, tz), exp |-> exp + tz]

\* sign * man * 2^exp (plus a non-zero tail below man's last bit when sticky)
\* rounded to Precision bits, ties to even
FRound(sign, man, exp, sticky) ==
    LET n == NBitLen(man)
    IN  IF n <= Precision THEN Canon(sign, man, exp)
        ELSE LET sh == n - Precision
                 q == NShr(man, sh)
                 half == NBit(man, sh - 1) = 1
                 rest == sticky \/ ~NLowZero(man, sh - 1)
                 up == half /\ (rest \/ NBit(q, 0) = 1)
             IN  Canon(sign, IF up THEN NAdd(q, <<1>>) ELSE q, exp + sh)

\* an integer literal or integer-valued property
FromInt(k) == Canon(IF k < 0 THEN -1 ELSE 1, NFromInt(IF k < 0 THEN -k ELSE k), 0)

FNeg(a) == IF a.man = <<>> THEN a ELSE [a EXCEPT !.sign = -a.sign]

\* a + b
FAdd(a, b) ==
    IF a.man = <<>> THEN b
    ELSE IF b.man = <<>> THEN a
    ELSE LET e == IF a.exp <= b.exp THEN a.exp ELSE b.exp
             ma == NShl(a.man, a.exp - e)
             mb == NShl(b.man, b.exp - e)
             c == NCmp(ma, mb)
         IN  IF a.sign = b.sign THEN FRound(a.sign, NAdd(ma, mb), e, FALSE)
             ELSE IF c = 0 THEN FZero
             ELSE IF c > 0 THEN FRound(a.sign, NSub(ma, mb), e, FALSE)
             ELSE FRound(b.sign, NSub(mb, ma), e, FALSE)

\* a - b
FSub(a, b) == FAdd(a, FNeg(b))

\* a * b
FMul(a, b) ==
    IF a.man = <<>> \/ b.man = <<>> THEN FZero
    ELSE FRound(a.sign * b.sign, NMul(a.man, b.man), a.exp + b.exp, FALSE)

\* a / b for a divisor b # 0 whose odd significand is a single limb (image
\* dimensions, powers of ten, 2): short division
FDiv(a, b) ==
    IF a.man = <<>> THEN FZero
    ELSE LET k == Precision + 3 + NBitLen(b.man) - NBitLen(a.man)
             qr == NDivMod(NShl(a.man, k), b.man[1])
         IN  FRound(a.sign * b.sign, qr.q, a.exp - b.exp - k, qr.r # 0)

\* a / b for any divisor b # 0: long division
FDivLong(a, b) ==
    IF a.man = <<>> THEN FZero
    ELSE LET k == Precision + 3 + NBitLen(b.man) - NBitLen(a.man)
             qr == NLongDiv(NShl(a.man, k), b.man)
         IN  FRound(a.sign * b.sign, qr.q, a.exp - b.exp - k, qr.r # <<>>)

\* -1, 0, 1 as a < b, a = b, a > b
FCmp(a, b) == LET d == FSub(a, b) IN IF d.man = <<>> THEN 0 ELSE d.sign

\* Math.min(a, b), Math.max(a, b)
FMin(a, b) == IF FCmp(a, b) <= 0 THEN a ELSE b
FMax(a, b) == IF FCmp(a, b) >= 0 THEN a ELSE b

\* the Number a JSON numeral p/q parses to
FromNum(n) == FDiv(FromInt(n[1]), FromInt(n[2]))

(* ----------------------------------------------------------------------- *)
(* Inputs                                                                  *)
(* ----------------------------------------------------------------------- *)
\* a JSON number p/q of the /predict response
Num(p, q) == <<p, q>>

\* one detection of the /predict response
Detection(x1, y1, x2, y2, cls) ==
    [x1 |-> x1, y1 |-> y1, x2 |-> x2, y2 |-> y2, class_name |-> cls]

\* detections the lists are made of: normalised, pixel, inverted, and one
\* with only its first corner at or below 1
DetectionPool ==
    << Detection(Num(1, 10), Num(1, 10), Num(1, 2), Num(1, 2), "pothole"),
       Detection(Num(100, 1), Num(100, 1), Num(300, 1), Num(300, 1), "crack"),
       Detection(Num(300, 1), Num(40, 1), Num(100, 1), Num(20, 1), "rut"),
       Detection(Num(1, 2), Num(1, 1), Num(300, 1), Num(200, 1), "patch") >>

ListOf(n) ==
    [i \in 1..n |-> DetectionPool[((i - 1) % Len(DetectionPool)) + 1]]

\* the lists drawDetections and init3DView are called with
DetLists == {ListOf(0), ListOf(MaxBoxes)}

\* a detection with its confidence
Scored(detection, confidence) == detection @@ [confidence |-> confidence]

\* the list whose boxes are looked at in full: the detections of the pool
\* with confidences 0.8723, 0.575, 0.5 and 1, one with no class name, and one
\* with x2 < x1 only
StrokeList ==
    << Scored(DetectionPool[1], Num(8723, 10000)),
       Scored(DetectionPool[2], Num(575, 1000)),
       Scored(DetectionPool[3], Num(1, 2)),
       Scored(DetectionPool[4], Num(1, 1)),
       Scored(Detection(Num(1255, 10), Num(2003, 10), Num(3107, 10),
                        Num(3801, 10), ""), Num(996, 1000)),
       Scored(Detection(Num(400, 1), Num(100, 1), Num(250, 1), Num(350, 1),
                        "dip"), Num(1, 4)) >>

\* the layout the boxes are looked at in: 500 x 250
StrokeRects == {<<5000, 2500>>}

\* wrapper.getBoundingClientRect(), width and height in tenths of a pixel:
\* not laid out, 301 x 200, the same with sub-pixel jitter, 500 x 250,
\* 640 x 360
RectSizes == {<<0, 0>>, <<3010, 2000>>, <<3012, 1998>>, <<5000, 2500>>,
              <<6400, 3600>>}

\* window.devicePixelRatio in quarters (0: undefined)
DevicePixelRatios == {0, 4, 6, 8, 12}

\* the layouts and the ratio the animation is checked with
LayoutSizes == {<<0, 0>>, <<5000, 2500>>}
LayoutRatios == {4}

\* naturalWidth, naturalHeight of the images loaded
ImageSizes == {<<1000, 500>>}

\* the layouts and images the coordinate transform is checked with:
\* not laid out, 500 x 250, 481 x 300, 496 x 279; 1000 x 500, 1920 x 1080
TransformRects == {<<0, 0>>, <<5000, 2500>>, <<4810, 3000>>, <<4960, 2790>>}
TransformImages == {<<1000, 500>>, <<1920, 1080>>}

ViewModes == {"2d", "3d"}

\* requestAnimationFrame handles; a handle is free for reuse once it is neither
\* outstanding nor remembered in _rafId
RafIds == 1..(MaxPending + 1)

VARIABLES
    rect,               \* wrapper.getBoundingClientRect() (tenths)
    devicePixelRatio,   \* window.devicePixelRatio (quarters)
    canvasSize,         \* <<canvas.width, canvas.height>>
    ctxScale,           \* ctx transform scale (quarters), 4 = identity
    _displayW,          \* this._displayW
    _displayH,          \* this._displayH
    image,              \* this.image: <<naturalWidth, naturalHeight>> or <<>> (null)
    origW,              \* this.origW
    origH,              \* this.origH
    detections,         \* this.detections
    viewMode,           \* this.viewMode
    animationProgress,  \* this.animationProgress (thousandths)
    isAnimating,        \* this.isAnimating
    _rafId,             \* this._rafId, 0 = null
    pending,            \* handles of the requestAnimationFrame(_animateBoxes)
                        \* requests outstanding, oldest first
    frame,              \* what the last handler's _render pass painted, or NoFrame
    resized,            \* the last handler assigned canvas.width / canvas.height
    framesShown,        \* frames painted since the last drawDetections (2: two or
                        \* more, or no list supplied yet)
    transformCall,      \* the last call of _getTransform: the fields read, the
                        \* transform returned
    mapCall,            \* the last call of _mapBox: its arguments, the box returned
    preview,            \* the AIPreviewRenderer of the hero section, or NoPreview
    wallet,             \* Web3Service (web3.js): its fields, localStorage keys
                        \* and calls in flight
    socket,             \* APIClient (api.js): its WebSocket and reconnect state
    analysis,           \* app.js: the analyze button, scanner and counters
    dashboard,          \* the Next.js dashboard: credits and uploads in flight
    load,               \* the promise of the loadImage call of displayResults
                        \* with its reaction, or NoLoad
    boxCall             \* one box of the frame on the canvas, as the _drawBoxes
                        \* callback drew it: its Numbers and drawing calls

vars == <<rect, devicePixelRatio, canvasSize, ctxScale, _displayW, _displayH,
          image, origW, origH, detections, viewMode, animationProgress,
          isAnimating, _rafId, pending, frame, resized, framesShown,
          transformCall, mapCall, load, boxCall, preview, wallet, socket,
          analysis, dashboard>>

\* the handler returned without a _render pass that got past its guard
NoFrame == [kind |-> "none"]

\* no call of the method yet
NoCall == [kind |-> "none"]

\* displayResults has not called loadImage
\* a part of the application that the specification at hand leaves out
Unused == [phase |-> "unused"]

\* the page has no hero preview
NoPreview == [phase |-> "absent"]

NoLoad == [state |-> "none"]

\* resolve() in img.onload: a pending promise is fulfilled
Resolved(l) == IF l.state = "pending" THEN [l EXCEPT !.state = "fulfilled"] ELSE l

\* the reaction of a fulfilled promise has run
Reacted(l) == IF l.state = "fulfilled" THEN [l EXCEPT !.state = "done"] ELSE l

(* ----------------------------------------------------------------------- *)
(* _syncCanvasSize                                                         *)
(* ----------------------------------------------------------------------- *)
\* Math.round of a non-negative length given in tenths
Round(x10) == (x10 + 5) \div 10

\* a ratio taken as it comes, without the cap
Dpr_Uncapped(raw) == IF raw = 0 THEN 4 ELSE raw

\* Math.min(window.devicePixelRatio || 1, 2), in quarters
Dpr(raw) == Min(IF raw = 0 THEN 4 ELSE raw, DprCap)

\* canvas.width = v stores the integer part (unsigned long); v is n/4
ToCanvasLength(n4) == n4 \div 4

\* this.canvas.width !== displayW * dpr || this.canvas.height !== displayH * dpr
SizeChanged(size, displayW, displayH, dpr) ==
    \/ size[1] * 4 # displayW * dpr
    \/ size[2] * 4 # displayH * dpr

\* the fields _syncCanvasSize leaves behind, for the wrapper rect r and ratio raw
SyncCanvasSize(size, scale, r, raw) ==
    LET dpr == Dpr(raw)
        displayW == Round(r[1])
        displayH == Round(r[2])
        changed == SizeChanged(size, displayW, displayH, dpr)
    IN  [canvasSize |-> IF changed
                        THEN <<ToCanvasLength(displayW * dpr),
                               ToCanvasLength(displayH * dpr)>>
                        ELSE size,
         ctxScale   |-> IF changed THEN dpr ELSE scale,
         resized    |-> changed,
         displayW   |-> displayW,
         displayH   |-> displayH]

(* ----------------------------------------------------------------------- *)
(* _drawBoxes / _render                                                    *)
(* ----------------------------------------------------------------------- *)
\* a stagger that gives every box the delay of box 1
LocalProgress_FixedDelay(index, ap) == Max(0, Min(Duration, ap - Stagger))

\* a stagger that starts the later boxes first
LocalProgress_Reversed(index, ap) ==
    Max(0, Min(Duration, ap + index * Stagger))

\* Math.max(0, Math.min(1, (animationProgress - delay) / 0.6)), over Duration
LocalProgress(index, ap) ==
    LET delay == index * Stagger
    IN  Max(0, Min(Duration, ap - delay))

\* what _drawBoxes draws for the box at a 0-based index
DrawBox(detection, index, ap) ==
    LET progress == LocalProgress(index, ap)
    IN  IF progress <= 0
        THEN [detection |-> detection, progress |-> progress,
              stroke |-> FALSE, glow |-> FALSE, label |-> FALSE]
        ELSE [detection |-> detection, progress |-> progress,
              stroke |-> TRUE, glow |-> TRUE, label |-> progress >= Duration]

DrawBoxes(dets, ap) ==
    [i \in 1..Len(dets) |-> DrawBox(dets[i], i - 1, ap)]

\* what _render paints: nothing behind its guard, else the image letter-boxed
\* for the display size and the boxes at the current progress
Render(img, mode, cw, ch, w, h, dets, ap) ==
    IF img = <<>> \/ mode # "2d" THEN NoFrame
    ELSE [kind |-> "frame", cw |-> cw, ch |-> ch, origW |-> w, origH |-> h,
          progress |-> ap, boxes |-> DrawBoxes(dets, ap)]

\* framesShown after a handler that left the frame f
CountFrame(n, f) == IF f = NoFrame THEN n ELSE Min(n + 1, 2)

(* ----------------------------------------------------------------------- *)
(* requestAnimationFrame                                                   *)
(* ----------------------------------------------------------------------- *)
\* the handles of a callback list
Handles(pend) == {pend[k] : k \in DOMAIN pend}

\* requestAnimationFrame returns a handle that names no other live request
FreshRafId(pend, last) ==
    CHOOSE id \in RafIds :
        /\ id \notin Handles(pend) \cup {last}
        /\ \A other \in RafIds :
               other \notin Handles(pend) \cup {last} => id <= other

\* cancelAnimationFrame(id)
CancelAnimationFrame(pend, id) == SelectSeq(pend, LAMBDA h : h # id)

(* ----------------------------------------------------------------------- *)
(* _animateBoxes, entered with the fields ap, anim, the outstanding        *)
(* handles pend and the detection list dets                                *)
(* ----------------------------------------------------------------------- *)
\* a progress that wraps round to 0 instead of stopping at 1
Advance_Looping(ap) == IF ap + Step >= One THEN 0 ELSE ap + Step

\* animationProgress after the increment and the clamp at 1
Advance(ap) ==
    LET sum == ap + Step
    IN  IF sum >= One THEN One ELSE sum

\* a loop that never clears isAnimating
StillAnimating_Forever(ap) == TRUE

\* isAnimating after the increment
StillAnimating(ap) == ap + Step < One

AnimateBoxes(ap, anim, pend, dets) ==
    IF ~anim
    THEN /\ animationProgress' = ap
         /\ isAnimating' = anim
         /\ _rafId' = _rafId
         /\ pending' = pend
         /\ frame' = NoFrame
    ELSE /\ animationProgress' = Advance(ap)
         /\ isAnimating' = StillAnimating(ap)
         /\ frame' = IF viewMode = "2d"
                     THEN Render(image, viewMode, _displayW, _displayH,
                                 origW, origH, dets, Advance(ap))
                     ELSE NoFrame
         /\ IF StillAnimating(ap)
            THEN LET id == FreshRafId(pend, _rafId)
                 IN  /\ _rafId' = id
                     /\ pending' = Append(pend, id)
            ELSE /\ _rafId' = _rafId
                 /\ pending' = pend

(* ----------------------------------------------------------------------- *)
(* Handlers                                                                *)
(* ----------------------------------------------------------------------- *)
\* a drawDetections that keeps the progress of the list it replaces
DrawDetections_NoReset(list) ==
    /\ Len(pending) < MaxPending
    /\ detections' = list
    /\ AnimateBoxes(animationProgress, TRUE, pending, list)
    /\ resized' = FALSE
    /\ framesShown' = CountFrame(0, frame')
    /\ boxCall' = NoCall
    /\ UNCHANGED <<transformCall, mapCall, preview, wallet, socket, analysis,
                 dashboard>>
    /\ load' = Reacted(load)
    /\ UNCHANGED <<rect, devicePixelRatio, canvasSize, ctxScale, _displayW,
                   _displayH, image, origW, origH, viewMode>>

\* a drawDetections that keeps a list it already has
DrawDetections_KeepList(list) ==
    /\ Len(pending) < MaxPending
    /\ detections' = IF detections = <<>> THEN list ELSE detections
    /\ AnimateBoxes(0, TRUE, pending, detections')
    /\ resized' = FALSE
    /\ framesShown' = CountFrame(0, frame')
    /\ boxCall' = NoCall
    /\ UNCHANGED <<transformCall, mapCall, preview, wallet, socket, analysis,
                 dashboard>>
    /\ load' = Reacted(load)
    /\ UNCHANGED <<rect, devicePixelRatio, canvasSize, ctxScale, _displayW,
                   _displayH, image, origW, origH, viewMode>>

\* drawDetections(detections)
DrawDetections(list) ==
    /\ Len(pending) < MaxPending
    /\ detections' = list
    /\ AnimateBoxes(0, TRUE, pending, list)
    /\ resized' = FALSE
    /\ framesShown' = CountFrame(0, frame')
    /\ boxCall' = NoCall
    /\ UNCHANGED <<transformCall, mapCall, preview, wallet, socket, analysis,
                 dashboard>>
    /\ load' = Reacted(load)
    /\ UNCHANGED <<rect, devicePixelRatio, canvasSize, ctxScale, _displayW,
                   _displayH, image, origW, origH, viewMode>>

\* the oldest requested animation frame is delivered (callbacks run in the
\* order they were registered): () => this._animateBoxes()
FrameCallback ==
    /\ pending # <<>>
    /\ AnimateBoxes(animationProgress, isAnimating, Tail(pending), detections)
    /\ resized' = FALSE
    /\ framesShown' = CountFrame(framesShown, frame')
    /\ boxCall' = NoCall
    /\ UNCHANGED <<transformCall, mapCall, load, preview, wallet, socket,
                 analysis, dashboard>>
    /\ UNCHANGED <<rect, devicePixelRatio, canvasSize, ctxScale, _displayW,
                   _displayH, image, origW, origH, detections, viewMode>>

\* a resize callback that starts the animation again
Resize_Restart(r, raw) ==
    LET s == SyncCanvasSize(canvasSize, ctxScale, r, raw)
    IN  /\ rect' = r
        /\ devicePixelRatio' = raw
        /\ canvasSize' = s.canvasSize
        /\ ctxScale' = s.ctxScale
        /\ resized' = s.resized
        /\ _displayW' = s.displayW
        /\ _displayH' = s.displayH
        /\ animationProgress' = 0
        /\ frame' = IF image # <<>>
                    THEN Render(image, viewMode, s.displayW, s.displayH,
                                origW, origH, detections, 0)
                    ELSE NoFrame
        /\ framesShown' = CountFrame(framesShown, frame')
        /\ boxCall' = NoCall
        /\ UNCHANGED <<transformCall, mapCall, load, preview, wallet, socket,
                 analysis, dashboard>>
        /\ UNCHANGED <<image, origW, origH, detections, viewMode,
                       isAnimating, _rafId, pending>>

\* the wrapper is laid out at r with ratio raw; the ResizeObserver / window
\* resize callback runs: _syncCanvasSize(); if (this.image) this._render()
Resize(r, raw) ==
    LET s == SyncCanvasSize(canvasSize, ctxScale, r, raw)
    IN  /\ rect' = r
        /\ devicePixelRatio' = raw
        /\ canvasSize' = s.canvasSize
        /\ ctxScale' = s.ctxScale
        /\ resized' = s.resized
        /\ _displayW' = s.displayW
        /\ _displayH' = s.displayH
        /\ frame' = IF image # <<>>
                    THEN Render(image, viewMode, s.displayW, s.displayH,
                                origW, origH, detections, animationProgress)
                    ELSE NoFrame
        /\ framesShown' = CountFrame(framesShown, frame')
        /\ boxCall' = NoCall
        /\ UNCHANGED <<transformCall, mapCall, load, preview, wallet, socket,
                 analysis, dashboard>>
        /\ UNCHANGED <<image, origW, origH, detections, viewMode,
                       animationProgress, isAnimating, _rafId, pending>>

\* loadImage(src), its image loading: img.onload
LoadImage(size) ==
    LET s == SyncCanvasSize(canvasSize, ctxScale, rect, devicePixelRatio)
    IN  /\ image' = size
        /\ origW' = size[1]
        /\ origH' = size[2]
        /\ canvasSize' = s.canvasSize
        /\ ctxScale' = s.ctxScale
        /\ resized' = s.resized
        /\ _displayW' = s.displayW
        /\ _displayH' = s.displayH
        /\ frame' = Render(size, viewMode, s.displayW, s.displayH,
                           size[1], size[2], detections, animationProgress)
        /\ framesShown' = CountFrame(framesShown, frame')
        /\ boxCall' = NoCall
        /\ UNCHANGED <<transformCall, mapCall, preview, wallet, socket, analysis,
                 dashboard>>
        /\ load' = Resolved(load)
        /\ UNCHANGED <<rect, devicePixelRatio, detections, viewMode,
                       animationProgress, isAnimating, _rafId, pending>>

\* setViewMode(mode)
SetViewMode(mode) ==
    /\ viewMode' = mode
    /\ frame' = IF mode = "2d"
                THEN Render(image, mode, _displayW, _displayH,
                            origW, origH, detections, animationProgress)
                ELSE NoFrame
    /\ resized' = FALSE
    /\ framesShown' = CountFrame(framesShown, frame')
    /\ boxCall' = NoCall
    /\ UNCHANGED <<transformCall, mapCall, load, preview, wallet, socket,
                 analysis, dashboard>>
    /\ UNCHANGED <<rect, devicePixelRatio, canvasSize, ctxScale, _displayW,
                   _displayH, image, origW, origH, detections,
                   animationProgress, isAnimating, _rafId, pending>>

\* init3DView(detections), called by the 2D/3D toggle of app.js
Init3DView(list) ==
    /\ detections' = list
    /\ frame' = NoFrame
    /\ resized' = FALSE
    /\ framesShown' = CountFrame(framesShown, frame')
    /\ boxCall' = NoCall
    /\ UNCHANGED <<transformCall, mapCall, load, preview, wallet, socket,
                 analysis, dashboard>>
    /\ UNCHANGED <<rect, devicePixelRatio, canvasSize, ctxScale, _displayW,
                   _displayH, image, origW, origH, viewMode,
                   animationProgress, isAnimating, _rafId, pending>>

\* clear()
Clear ==
    /\ pending' = IF _rafId # 0
                  THEN CancelAnimationFrame(pending, _rafId)
                  ELSE pending
    /\ frame' = NoFrame
    /\ image' = <<>>
    /\ detections' = <<>>
    /\ resized' = FALSE
    /\ framesShown' = CountFrame(framesShown, frame')
    /\ boxCall' = NoCall
    /\ UNCHANGED <<transformCall, mapCall, load, preview, wallet, socket,
                 analysis, dashboard>>
    /\ UNCHANGED <<rect, devicePixelRatio, canvasSize, ctxScale, _displayW,
                   _displayH, origW, origH, viewMode, animationProgress,
                   isAnimating, _rafId>>

(* ----------------------------------------------------------------------- *)
(* _getTransform, _mapBox: the geometry of a _render pass                  *)
(* ----------------------------------------------------------------------- *)
\* _getTransform() with this._displayW = cw, this._displayH = ch,
\* this.origW = w, this.origH = h
GetTransform(cw, ch, w, h) ==
    LET fitScale == FMin(FDiv(FromInt(cw), FromInt(w)),
                         FDiv(FromInt(ch), FromInt(h)))
        scaledW == FMul(FromInt(w), fitScale)
        scaledH == FMul(FromInt(h), fitScale)
        offsetX == FDiv(FSub(FromInt(cw), scaledW), FromInt(2))
        offsetY == FDiv(FSub(FromInt(ch), scaledH), FromInt(2))
    IN  [fitScale |-> fitScale, offsetX |-> offsetX, offsetY |-> offsetY,
         scaledW |-> scaledW, scaledH |-> scaledH]

\* x1 <= 1 && y1 <= 1 && x2 <= 1 && y2 <= 1
IsNorm(x1, y1, x2, y2) ==
    /\ FCmp(x1, FromInt(1)) <= 0
    /\ FCmp(y1, FromInt(1)) <= 0
    /\ FCmp(x2, FromInt(1)) <= 0
    /\ FCmp(y2, FromInt(1)) <= 0

\* a _mapBox that takes every detection for pixels
MapBox_AsPixels(det, t, w, h) ==
    [sx |-> FAdd(FMul(FromNum(det.x1), t.fitScale), t.offsetX),
     sy |-> FAdd(FMul(FromNum(det.y1), t.fitScale), t.offsetY),
     sw |-> FMul(FSub(FromNum(det.x2), FromNum(det.x1)), t.fitScale),
     sh |-> FMul(FSub(FromNum(det.y2), FromNum(det.y1)), t.fitScale)]

\* a mapping that clamps the width and the height at 0
MapBox_Clamped(det, t, w, h) ==
    LET b == MapBox_AsPixels(det, t, w, h)
    IN  [b EXCEPT !.sw = FMax(FZero, b.sw), !.sh = FMax(FZero, b.sh)]

\* _mapBox(det, t) with this.origW = w, this.origH = h
MapBox(det, t, w, h) ==
    LET isNorm == IsNorm(FromNum(det.x1), FromNum(det.y1),
                         FromNum(det.x2), FromNum(det.y2))
        x1 == IF isNorm THEN FMul(FromNum(det.x1), FromInt(w)) ELSE FromNum(det.x1)
        y1 == IF isNorm THEN FMul(FromNum(det.y1), FromInt(h)) ELSE FromNum(det.y1)
        x2 == IF isNorm THEN FMul(FromNum(det.x2), FromInt(w)) ELSE FromNum(det.x2)
        y2 == IF isNorm THEN FMul(FromNum(det.y2), FromInt(h)) ELSE FromNum(det.y2)
    IN  [sx |-> FAdd(FMul(x1, t.fitScale), t.offsetX),
         sy |-> FAdd(FMul(y1, t.fitScale), t.offsetY),
         sw |-> FMul(FSub(x2, x1), t.fitScale),
         sh |-> FMul(FSub(y2, y1), t.fitScale)]

\* a _getTransform that adds its offsets to those of the call before
GetTransformCall_Drifting ==
    LET t == GetTransform(_displayW, _displayH, origW, origH)
    IN  /\ image # <<>>
        /\ transformCall' =
               [kind |-> "call", cw |-> _displayW, ch |-> _displayH,
                origW |-> origW, origH |-> origH,
                t |-> IF transformCall = NoCall THEN t
                      ELSE [t EXCEPT
                              !.offsetX = FAdd(t.offsetX, transformCall.t.offsetX),
                              !.offsetY = FAdd(t.offsetY, transformCall.t.offsetY)]]
        /\ UNCHANGED <<rect, devicePixelRatio, canvasSize, ctxScale, _displayW,
                       _displayH, image, origW, origH, detections, viewMode,
                       animationProgress, isAnimating, _rafId, pending, frame,
                       resized, framesShown, mapCall, load, boxCall,
                   preview, wallet, socket, analysis, dashboard>>

\* const t = this._getTransform(), as _render calls it (an image is loaded)
GetTransformCall ==
    /\ image # <<>>
    /\ transformCall' = [kind |-> "call", cw |-> _displayW, ch |-> _displayH,
                         origW |-> origW, origH |-> origH,
                         t |-> GetTransform(_displayW, _displayH, origW, origH)]
    /\ UNCHANGED <<rect, devicePixelRatio, canvasSize, ctxScale, _displayW,
                   _displayH, image, origW, origH, detections, viewMode,
                   animationProgress, isAnimating, _rafId, pending, frame,
                   resized, framesShown, mapCall, load, boxCall,
                   preview, wallet, socket, analysis, dashboard>>

\* this._mapBox(detection, t), as _drawBoxes calls it with the transform of
\* its _render pass
MapBoxCall(det) ==
    /\ transformCall # NoCall
    /\ transformCall.origW = origW
    /\ transformCall.origH = origH
    /\ mapCall' = [kind |-> "call", det |-> det, t |-> transformCall.t,
                   cw |-> transformCall.cw, ch |-> transformCall.ch,
                   origW |-> origW, origH |-> origH,
                   box |-> MapBox(det, transformCall.t, origW, origH)]
    /\ UNCHANGED <<rect, devicePixelRatio, canvasSize, ctxScale, _displayW,
                   _displayH, image, origW, origH, detections, viewMode,
                   animationProgress, isAnimating, _rafId, pending, frame,
                   resized, framesShown, transformCall, load, boxCall,
                   preview, wallet, socket, analysis, dashboard>>

(* ----------------------------------------------------------------------- *)
(* The _drawBoxes callback on Numbers: one box of a frame with its         *)
(* progress, its stroked path, its glow and its label                      *)
(* ----------------------------------------------------------------------- *)
\* the literals 0.025, 0.08 and 0.6
StepNumber == FromNum(Num(25, 1000))
StaggerNumber == FromNum(Num(8, 100))
DurationNumber == FromNum(Num(6, 10))

\* an increment without the clamp at 1
Increment_Unclamped(apn) == FAdd(apn, StepNumber)

\* this.animationProgress += 0.025, set to 1 once >= 1
Increment(apn) ==
    LET sum == FAdd(apn, StepNumber)
    IN  IF FCmp(sum, FromInt(1)) >= 0 THEN FromInt(1) ELSE sum

\* this.animationProgress after k more increments
RECURSIVE Accumulated(_, _)
Accumulated(k, apn) ==
    IF k = 0 THEN apn
    ELSE CHOOSE sum \in {Accumulated(k - 1, next) : next \in {Increment(apn)}} :
             TRUE

ProgressNumbers == [k \in 0..(One \div Step) |-> Accumulated(k, FZero)]

\* the Number this.animationProgress holds when the model holds ap
ProgressNumber(ap) == ProgressNumbers[ap \div Step]

\* progress = Math.max(0, Math.min(1, (animationProgress - index * 0.08) / 0.6))
Progress(index, apn) ==
    LET delay == FMul(FromInt(index), StaggerNumber)
    IN  FMax(FZero, FMin(FromInt(1), FDivLong(FSub(apn, delay), DurationNumber)))

MoveTo(x, y) == [op |-> "moveTo", x |-> x, y |-> y]
LineTo(x, y) == [op |-> "lineTo", x |-> x, y |-> y]

\* a path whose edges, once started, are drawn to their full length
StrokePath_FullEdges(sx, sy, sw, sh, progress) ==
    LET currentLength == FMul(FMul(FromInt(2), FAdd(sw, sh)), progress)
    IN  (IF FCmp(currentLength, FZero) > 0
         THEN <<MoveTo(sx, sy), LineTo(FAdd(sx, sw), sy)>> ELSE <<>>)
        \o (IF FCmp(currentLength, sw) > 0
            THEN <<LineTo(FAdd(sx, sw), FAdd(sy, sh))>> ELSE <<>>)
        \o (IF FCmp(currentLength, FAdd(sw, sh)) > 0
            THEN <<LineTo(sx, FAdd(sy, sh))>> ELSE <<>>)
        \o (IF FCmp(currentLength, FAdd(FMul(FromInt(2), sw), sh)) > 0
            THEN <<LineTo(sx, sy)>> ELSE <<>>)

\* the path between ctx.beginPath() and ctx.stroke()
StrokePath(sx, sy, sw, sh, progress) ==
    LET perimeter == FMul(FromInt(2), FAdd(sw, sh))
        currentLength == FMul(perimeter, progress)
        top == IF FCmp(currentLength, FZero) > 0
               THEN << MoveTo(sx, sy),
                       LineTo(FAdd(sx, FMin(sw, currentLength)), sy) >>
               ELSE <<>>
        right == IF FCmp(currentLength, sw) > 0
                 THEN << LineTo(FAdd(sx, sw),
                                FAdd(sy, FMin(sh, FSub(currentLength, sw)))) >>
                 ELSE <<>>
        bottom == IF FCmp(currentLength, FAdd(sw, sh)) > 0
                  THEN << LineTo(FSub(FAdd(sx, sw),
                                      FMin(sw, FSub(FSub(currentLength, sw), sh))),
                                 FAdd(sy, sh)) >>
                  ELSE <<>>
        left == IF FCmp(currentLength, FAdd(FMul(FromInt(2), sw), sh)) > 0
                THEN << LineTo(sx,
                               FSub(FAdd(sy, sh),
                                    FMin(sh, FSub(FSub(currentLength,
                                                       FMul(FromInt(2), sw)),
                                                  sh)))) >>
                ELSE <<>>
    IN  top \o right \o bottom \o left

\* the value of a natural number written in limbs
RECURSIVE NToInt(_)
NToInt(a) == IF a = <<>> THEN 0 ELSE a[1] + Base * NToInt(Tail(a))

\* x.toFixed(0) as an integer: the nearest integer, the larger in magnitude
\* of two equally near
ToFixed0(x) ==
    IF x.man = <<>> THEN 0
    ELSE IF x.exp >= 0 THEN x.sign * NToInt(NShl(x.man, x.exp))
    ELSE x.sign * NToInt(NShr(NAdd(x.man, NShl(<<1>>, -x.exp - 1)), -x.exp))

\* the label chip: ctx.fillRect(sx, sy - labelH - 4, labelW, labelH) and the
\* text `${className} ${(conf * 100).toFixed(0)}%`, or without the class name
\* when it is empty
LabelChip(detection, sx, sy) ==
    LET percent == ToFixed0(FMul(FromNum(detection.confidence), FromInt(100)))
        labelH == FromInt(22)
    IN  [x |-> sx, y |-> FSub(FSub(sy, labelH), FromInt(4)), height |-> labelH,
         text |-> IF detection.class_name # ""
                  THEN <<detection.class_name, " ", percent, "%">>
                  ELSE <<percent, "%">>]

NoLabel == [text |-> <<>>]

\* a drawing that keeps the glow pass for the complete box
Drawn_GlowWhenComplete(detection, b, progress) ==
    LET complete == FCmp(progress, FromInt(1)) >= 0
    IN  IF FCmp(progress, FZero) <= 0
        THEN [box |-> b, progress |-> progress, path |-> <<>>, strokes |-> 0,
              shadowBlur |-> FZero, label |-> NoLabel]
        ELSE [box |-> b, progress |-> progress,
              path |-> StrokePath(b.sx, b.sy, b.sw, b.sh, progress),
              strokes |-> IF complete THEN 2 ELSE 1,
              shadowBlur |-> IF complete THEN FMul(FromInt(10), progress)
                             ELSE FZero,
              label |-> IF complete THEN LabelChip(detection, b.sx, b.sy)
                        ELSE NoLabel]

\* what the callback draws for a detection mapped to the box b, at the local
\* progress: nothing at progress 0, else the path stroked twice and, once
\* complete, the label
Drawn(detection, b, progress) ==
    IF FCmp(progress, FZero) <= 0
    THEN [box |-> b, progress |-> progress, path |-> <<>>, strokes |-> 0,
          shadowBlur |-> FZero, label |-> NoLabel]
    ELSE [box |-> b, progress |-> progress,
          path |-> StrokePath(b.sx, b.sy, b.sw, b.sh, progress),
          strokes |-> 2,
          shadowBlur |-> FMul(FromInt(10), progress),
          label |-> IF FCmp(progress, FromInt(1)) >= 0
                    THEN LabelChip(detection, b.sx, b.sy)
                    ELSE NoLabel]

\* what the callback of dets.forEach draws for a detection at a 0-based
\* index: the box and the progress are computed once, then drawn
DrawnBox(detection, index, t, w, h, apn) ==
    CHOOSE drawn \in {Drawn(detection, b, progress) :
                         b \in {MapBox(detection, t, w, h)},
                         progress \in {Progress(index, apn)}} : TRUE

\* dets.forEach in the _render pass that painted the frame on the canvas: the
\* callback for the next box of the list, the first when none has been drawn
DrawBoxCall ==
    LET index == IF boxCall = NoCall THEN 0 ELSE boxCall.index + 1
    IN  /\ frame.kind = "frame"
        /\ index + 1 \in DOMAIN frame.boxes
        /\ boxCall' = [kind |-> "call", index |-> index,
                       detection |-> frame.boxes[index + 1].detection,
                       cw |-> frame.cw, ch |-> frame.ch,
                       animationProgress |-> ProgressNumber(frame.progress),
                       drawn |-> DrawnBox(frame.boxes[index + 1].detection,
                                          index,
                                          GetTransform(frame.cw, frame.ch,
                                                       frame.origW, frame.origH),
                                          frame.origW, frame.origH,
                                          ProgressNumber(frame.progress))]
        /\ UNCHANGED <<rect, devicePixelRatio, canvasSize, ctxScale, _displayW,
                       _displayH, image, origW, origH, detections, viewMode,
                       animationProgress, isAnimating, _rafId, pending, frame,
                       resized, framesShown, transformCall, mapCall, load,
                   preview, wallet, socket, analysis, dashboard>>

(* ----------------------------------------------------------------------- *)
(* new DetectionRenderer(): the fields of the constructor, then _init      *)
(* runs _syncCanvasSize on a canvas of the default size (300 x 150)        *)
(* ----------------------------------------------------------------------- *)
Constructed(rects, ratios) ==
    /\ rect \in rects
    /\ devicePixelRatio \in ratios
    /\ LET s == SyncCanvasSize(<<300, 150>>, 4, rect, devicePixelRatio)
       IN  /\ canvasSize = s.canvasSize
           /\ ctxScale = s.ctxScale
           /\ resized = s.resized
           /\ _displayW = s.displayW
           /\ _displayH = s.displayH
    /\ image = <<>>
    /\ origW = 0
    /\ origH = 0
    /\ detections = <<>>
    /\ viewMode = "2d"
    /\ animationProgress = 0
    /\ isAnimating = FALSE
    /\ _rafId = 0
    /\ pending = <<>>
    /\ frame = NoFrame
    /\ framesShown = 2
    /\ transformCall = NoCall
    /\ mapCall = NoCall
    /\ load = NoLoad
    /\ boxCall = NoCall

(* ----------------------------------------------------------------------- *)
(* The renderer with its animation                                         *)
(* ----------------------------------------------------------------------- *)
Init == Constructed(LayoutSizes, LayoutRatios) /\ preview = NoPreview
    /\ wallet = Unused /\ socket = Unused /\ analysis = Unused
    /\ dashboard = Unused

Next ==
    \/ \E list \in DetLists : DrawDetections(list)
    \/ FrameCallback
    \/ \E r \in LayoutSizes, raw \in LayoutRatios : Resize(r, raw)
    \/ \E size \in ImageSizes : LoadImage(size)
    \/ \E mode \in ViewModes : SetViewMode(mode)
    \/ \E list \in DetLists : Init3DView(list)
    \/ Clear

Spec == Init /\ [][Next]_vars

(* ----------------------------------------------------------------------- *)
(* The resize coordinator over every layout and device pixel ratio         *)
(* ----------------------------------------------------------------------- *)
InitResize == Constructed(RectSizes, DevicePixelRatios) /\ preview = NoPreview
    /\ wallet = Unused /\ socket = Unused /\ analysis = Unused
    /\ dashboard = Unused

NextResize ==
    \/ \E r \in RectSizes, raw \in DevicePixelRatios : Resize(r, raw)
    \/ \E size \in ImageSizes : LoadImage(size)

SpecResize == InitResize /\ [][NextResize]_vars

(* ----------------------------------------------------------------------- *)
(* The coordinate transform over layouts, images and detections            *)
(* ----------------------------------------------------------------------- *)
InitTransform == Constructed(TransformRects, LayoutRatios) /\ preview = NoPreview
    /\ wallet = Unused /\ socket = Unused /\ analysis = Unused
    /\ dashboard = Unused

NextTransform ==
    \/ \E r \in TransformRects, raw \in LayoutRatios : Resize(r, raw)
    \/ \E size \in TransformImages : LoadImage(size)
    \/ GetTransformCall
    \/ \E k \in DOMAIN DetectionPool : MapBoxCall(DetectionPool[k])

SpecTransform == InitTransform /\ [][NextTransform]_vars

(* ----------------------------------------------------------------------- *)
(* The boxes of the frames of one animation, looked at in full             *)
(* ----------------------------------------------------------------------- *)
InitStroke == Constructed(StrokeRects, LayoutRatios) /\ preview = NoPreview
    /\ wallet = Unused /\ socket = Unused /\ analysis = Unused
    /\ dashboard = Unused

\* one result displayed as app.js displays it, loadImage(src).then(() =>
\* drawDetections(detections)), and the frames of its animation
NextStroke ==
    \/ \E size \in TransformImages : image = <<>> /\ LoadImage(size)
    \/ image # <<>> /\ detections = <<>> /\ DrawDetections(StrokeList)
    \/ FrameCallback
    \/ DrawBoxCall

SpecStroke == InitStroke /\ [][NextStroke]_vars

(* ----------------------------------------------------------------------- *)
(* One result displayed after another, each with its frame loop: the        *)
(* browser delivers every requested animation frame                        *)
(* ----------------------------------------------------------------------- *)
\* the argument of drawDetections: a list, or nothing
Arguments == {[given |-> FALSE, list |-> <<>>],
              [given |-> TRUE, list |-> <<>>],
              [given |-> TRUE, list |-> ListOf(2)]}

\* detections || []
OrEmpty(arg) == IF arg.given THEN arg.list ELSE <<>>

InitLoop == Constructed(LayoutSizes, LayoutRatios) /\ preview = NoPreview
    /\ wallet = Unused /\ socket = Unused /\ analysis = Unused
    /\ dashboard = Unused

NextLoop ==
    \/ \E size \in ImageSizes : image = <<>> /\ LoadImage(size)
    \/ \E arg \in Arguments :
           ~isAnimating /\ pending = <<>> /\ DrawDetections(OrEmpty(arg))
    \/ FrameCallback
    \/ \E mode \in ViewModes : mode # viewMode /\ SetViewMode(mode)

SpecLoop == InitLoop /\ [][NextLoop]_vars /\ WF_vars(FrameCallback)

(* ----------------------------------------------------------------------- *)
(* displayResults of app.js: renderer.loadImage(previewImg?.src)            *)
(*     .then(() => renderer.drawDetections(detections))                    *)
(* ----------------------------------------------------------------------- *)
\* the reactions chained on the promise loadImage returns
Reactions == <<[onFulfilled |-> "drawDetections", onRejected |-> "none"]>>

\* a rejection meets a reaction that handles it
Caught(reactions) ==
    \E k \in DOMAIN reactions : reactions[k].onRejected # "none"

\* a rejection meets a reaction that shows the error to the user
ShowsError(reactions) ==
    \E k \in DOMAIN reactions : reactions[k].onRejected = "showError"

\* displayResults(data) with data.detections = list, up to its return: the
\* image is requested and the promise is pending
DisplayResults(list) ==
    /\ load.state \in {"none", "done", "rejected"}
    /\ load' = [state |-> "pending", list |-> list, unhandled |-> FALSE,
                errorShown |-> FALSE]
    /\ frame' = NoFrame
    /\ resized' = FALSE
    /\ boxCall' = NoCall
    /\ UNCHANGED <<rect, devicePixelRatio, canvasSize, ctxScale, _displayW,
                   _displayH, image, origW, origH, detections, viewMode,
                   animationProgress, isAnimating, _rafId, pending,
                   framesShown, transformCall, mapCall,
                   preview, wallet, socket, analysis, dashboard>>

\* img.onerror = reject: the promise is rejected and the rejection runs down
\* the chain of reactions
ImageError ==
    /\ load.state = "pending"
    /\ load' = [load EXCEPT !.state = "rejected",
                            !.unhandled = ~Caught(Reactions),
                            !.errorShown = ShowsError(Reactions)]
    /\ frame' = NoFrame
    /\ resized' = FALSE
    /\ boxCall' = NoCall
    /\ UNCHANGED <<rect, devicePixelRatio, canvasSize, ctxScale, _displayW,
                   _displayH, image, origW, origH, detections, viewMode,
                   animationProgress, isAnimating, _rafId, pending,
                   framesShown, transformCall, mapCall,
                   preview, wallet, socket, analysis, dashboard>>

InitDisplay == Constructed(LayoutSizes, LayoutRatios) /\ preview = NoPreview
    /\ wallet = Unused /\ socket = Unused /\ analysis = Unused
    /\ dashboard = Unused

\* results are displayed one after another; the reaction of a fulfilled
\* promise runs before any other callback
NextDisplay ==
    \/ \E list \in DetLists : DisplayResults(list)
    \/ \E size \in ImageSizes : load.state = "pending" /\ LoadImage(size)
    \/ ImageError
    \/ load.state = "fulfilled" /\ DrawDetections(load.list)
    \/ load.state # "fulfilled" /\ FrameCallback

SpecDisplay == InitDisplay /\ [][NextDisplay]_vars

(* ----------------------------------------------------------------------- *)
(* AIPreviewRenderer (aiPreviewRenderer.js): the hero section's preview    *)
(* ----------------------------------------------------------------------- *)
\* const count = 2 + Math.floor(Math.random() * 3)
BoxCounts == {2, 3, 4}

\* the cells of the 3x2 grid, numbered row * COLS + col
Cells == 0..5

\* cells.slice(0, count) after the Fisher-Yates shuffle: any count distinct
\* cells
Selections == {chosen \in SUBSET Cells : Cardinality(chosen) \in BoxCounts}

NoBoxes == [cell \in Cells |-> 0]

\* new AIPreviewRenderer() on a page where gsap is or is not defined, where
\* RoadTextureGenerator is undefined ("none"), resolves ("ok") or rejects
\* ("fails"), and whose container has a layout or not yet
Booting(gsap, generator, laidOut) ==
    [phase |-> "constructed", gsap |-> gsap, generator |-> generator,
     laidOut |-> laidOut, _retryCount |-> 0, isRunning |-> FALSE,
     awaiting |-> FALSE,    \* await gen.generateAll(6) outstanding
     boxes |-> 0,           \* .ai-bbox elements in the viewport
     placed |-> NoBoxes,    \* of them, in each cell
     entering |-> 0,        \* elements of the viewport in their entrance tween
     fading |-> 0,          \* elements a gsap.to fade will remove
     adds |-> 0,            \* setTimeout(_addBoundingBox) callbacks outstanding
     chosen |-> NoBoxes,    \* of them, for each cell
     timers |-> 0,          \* setInterval timers running
     cycleTimer |-> FALSE,  \* this.cycleTimer holds a running timer
     cycleTl |-> "none",    \* this.cycleTl: position of the running timeline
     error |-> FALSE]       \* a ReferenceError was thrown

\* _clearBoxes run with every use of gsap unguarded
ClearBoxes_Unguarded(p) ==
    IF p.gsap THEN [p EXCEPT !.fading = p.boxes]
    ELSE IF p.boxes > 0 THEN [p EXCEPT !.error = TRUE]
    ELSE p

\* _clearBoxes(): each .ai-bbox fades out and is removed on completion
\* under gsap, and is removed at once without it
ClearBoxes(p) ==
    IF p.gsap THEN [p EXCEPT !.fading = p.boxes]
    ELSE [p EXCEPT !.boxes = 0, !.placed = NoBoxes]

\* _generateDetections(): bails on a container without layout; otherwise
\* schedules one _addBoundingBox callback for each chosen cell
GenerateDetections(p, chosen) ==
    IF ~p.laidOut THEN p
    ELSE [p EXCEPT !.adds = @ + Cardinality(chosen),
                   !.chosen = [cell \in Cells |->
                                  IF cell \in chosen THEN @[cell] + 1 ELSE @[cell]]]

\* _addBoundingBox(): appends the element; the entrance tween is guarded
AddBoundingBox(p, cell) ==
    [p EXCEPT !.boxes = @ + 1,
              !.placed[cell] = @ + 1,
              !.entering = IF p.gsap THEN @ + 1 ELSE @]

\* _startLegacyCycle(): one detection at once, then one every interval
StartLegacyCycle(p, chosen) ==
    [GenerateDetections(p, chosen) EXCEPT !.timers = @ + 1, !.cycleTimer = TRUE]

\* _runOneCycle(), up to the creation of the timeline
RunOneCycle(p, chosen) ==
    IF ~p.isRunning THEN p
    ELSE LET cleared == ClearBoxes(p)
         IN  IF ~cleared.gsap THEN StartLegacyCycle(cleared, chosen)
             ELSE [cleared EXCEPT !.cycleTl = "start"]

\* _generateRoadTextures(), up to its await
GenerateRoadTextures(p, chosen) ==
    IF p.generator = "none" THEN StartLegacyCycle(p, chosen)
    ELSE [p EXCEPT !.awaiting = TRUE]

\* _init(): up to three retries while the container has no layout
PreviewInit(p, chosen) ==
    LET counted == IF p.laidOut THEN p ELSE [p EXCEPT !._retryCount = @ + 1]
    IN  IF ~p.laidOut /\ counted._retryCount <= 3
        THEN [counted EXCEPT !.phase = "retry"]
        ELSE [GenerateRoadTextures(counted, chosen)
                 EXCEPT !.isRunning = TRUE, !.phase = "running"]

\* every variable of the DetectionRenderer and of displayResults
rendererVars == <<rect, devicePixelRatio, canvasSize, ctxScale, _displayW,
                  _displayH, image, origW, origH, detections, viewMode,
                  animationProgress, isAnimating, _rafId, pending, frame,
                  resized, framesShown, transformCall, mapCall, load, boxCall>>

\* the timeout of _deferredBoot or of a retry fires
PreviewBoot ==
    /\ preview.phase \in {"constructed", "retry"}
    /\ \E chosen \in Selections : preview' = PreviewInit(preview, chosen)
    /\ UNCHANGED <<rendererVars, wallet, socket, analysis, dashboard>>

\* the container gets its layout
ContainerLaidOut ==
    /\ preview.phase # "absent"
    /\ ~preview.laidOut
    /\ preview' = [preview EXCEPT !.laidOut = TRUE]
    /\ UNCHANGED <<rendererVars, wallet, socket, analysis, dashboard>>

\* gen.generateAll(6) resolves: _startSyncedCycle()
TexturesReady ==
    /\ preview.phase # "absent"
    /\ preview.awaiting
    /\ preview.generator = "ok"
    /\ \E chosen \in Selections :
           preview' = RunOneCycle([preview EXCEPT !.awaiting = FALSE], chosen)
    /\ UNCHANGED <<rendererVars, wallet, socket, analysis, dashboard>>

\* gen.generateAll(6) rejects: the catch starts the legacy cycle
TexturesFailed ==
    /\ preview.phase # "absent"
    /\ preview.awaiting
    /\ preview.generator = "fails"
    /\ \E chosen \in Selections :
           preview' = StartLegacyCycle([preview EXCEPT !.awaiting = FALSE], chosen)
    /\ UNCHANGED <<rendererVars, wallet, socket, analysis, dashboard>>

\* the interval of the legacy cycle fires, 4000 ms or more after the
\* detection before it, whose timeouts of at most 3 * 260 ms have fired
CycleTick ==
    /\ preview.phase # "absent"
    /\ preview.timers > 0
    /\ preview.adds = 0
    /\ \E chosen \in Selections :
           /\ preview.boxes + preview.adds + Cardinality(chosen) <= MaxPreviewBoxes
           /\ preview' = GenerateDetections(preview, chosen)
    /\ UNCHANGED <<rendererVars, wallet, socket, analysis, dashboard>>

\* one timeout of _generateDetections fires
AddBoxTimeout ==
    /\ preview.phase # "absent"
    /\ \E cell \in Cells :
           /\ preview.chosen[cell] > 0
           /\ LET fired == [preview EXCEPT !.adds = @ - 1,
                                           !.chosen[cell] = @ - 1]
              IN  preview' = IF fired.isRunning
                             THEN AddBoundingBox(fired, cell) ELSE fired
    /\ UNCHANGED <<rendererVars, wallet, socket, analysis, dashboard>>

\* an entrance tween completes
EntranceComplete ==
    /\ preview.phase # "absent"
    /\ preview.entering > 0
    /\ preview' = [preview EXCEPT !.entering = @ - 1]
    /\ UNCHANGED <<rendererVars, wallet, socket, analysis, dashboard>>

\* a fade completes: onComplete: () => el.remove()
FadeComplete ==
    /\ preview.phase # "absent"
    /\ preview.fading > 0
    /\ \E cell \in Cells :
           /\ preview.placed[cell] > 0
           /\ preview' = [preview EXCEPT
                      !.fading = @ - 1,
                      !.boxes = @ - 1,
                      !.placed[cell] = @ - 1,
                      !.entering = IF @ < preview.boxes THEN @ ELSE preview.boxes - 1]
    /\ UNCHANGED <<rendererVars, wallet, socket, analysis, dashboard>>

\* the timeline reaches cycleTl.call(() => this._generateDetections(), null, 1.0);
\* the 0.2 s fades that _runOneCycle started at 0 s are over
TimelineDetections ==
    /\ preview.phase # "absent"
    /\ preview.cycleTl = "start"
    /\ preview.fading = 0
    /\ \E chosen \in Selections :
           /\ preview.boxes + preview.adds + Cardinality(chosen) <= MaxPreviewBoxes
           /\ preview' = [GenerateDetections(preview, chosen)
                             EXCEPT !.cycleTl = "detected"]
    /\ UNCHANGED <<rendererVars, wallet, socket, analysis, dashboard>>

\* the timeline reaches cycleTl.call(() => this._clearBoxes(), null,
\* fadeStart + 0.3), at 4.8 s or later; the timeouts set at 1 s for at most
\* 3 * 260 ms have fired
TimelineClear ==
    /\ preview.phase # "absent"
    /\ preview.cycleTl = "detected"
    /\ preview.adds = 0
    /\ preview' = [ClearBoxes(preview) EXCEPT !.cycleTl = "cleared"]
    /\ UNCHANGED <<rendererVars, wallet, socket, analysis, dashboard>>

\* onComplete of the timeline, 0.3 s after its _clearBoxes call, whose 0.2 s
\* fades are over: the next cycle
TimelineComplete ==
    /\ preview.phase # "absent"
    /\ preview.cycleTl = "cleared"
    /\ preview.fading = 0
    /\ \E chosen \in Selections : preview' = RunOneCycle(preview, chosen)
    /\ UNCHANGED <<rendererVars, wallet, socket, analysis, dashboard>>

\* destroy() of a preview that has been initialised
PreviewDestroy ==
    /\ preview.phase = "running"
    /\ preview' = ClearBoxes([preview EXCEPT
                                !.phase = "destroyed",
                                !.isRunning = FALSE,
                                !.timers = IF preview.cycleTimer THEN @ - 1 ELSE @,
                                !.cycleTimer = FALSE,
                                !.cycleTl = "none"])
    /\ UNCHANGED <<rendererVars, wallet, socket, analysis, dashboard>>

\* this.w, this.h as _measure reads them from a laid-out container
PreviewSizes == {<<600, 400>>, <<330, 210>>}

\* Math.random(), in hundredths
Randoms == {0, 99}

\* the four Math.random() draws of one _addBoundingBox call
Draws == [w : Randoms, h : Randoms, x : Randoms, y : Randoms]

\* left, top, width, height (px) that _addBoundingBox gives the box of a cell
BoxStyle(cell, size, draw) ==
    LET cellW == size[1] \div 3
        cellH == size[2] \div 2
        pad == 10
        maxBW == cellW - pad * 2
        maxBH == cellH - pad * 2
        bw == (maxBW * (5000 + 30 * draw.w) + 5000) \div 10000
        bh == (maxBH * (4500 + 30 * draw.h) + 5000) \div 10000
        cellLeft == (cell % 3) * cellW
        cellTop == (cell \div 3) * cellH
        jitterX == draw.x * Max(maxBW - bw, 0)
        jitterY == draw.y * Max(maxBH - bh, 0)
    IN  [left |-> (100 * (cellLeft + pad) + jitterX + 50) \div 100,
         top |-> (100 * (cellTop + pad) + jitterY + 50) \div 100,
         width |-> bw,
         height |-> bh]

InitPreview ==
    /\ Constructed(LayoutSizes, LayoutRatios)
    /\ wallet = Unused /\ socket = Unused /\ analysis = Unused
    /\ dashboard = Unused
    /\ \E gsap \in BOOLEAN, generator \in {"none", "ok", "fails"},
          laidOut \in BOOLEAN : preview = Booting(gsap, generator, laidOut)

NextPreview ==
    \/ PreviewBoot
    \/ ContainerLaidOut
    \/ TexturesReady
    \/ TexturesFailed
    \/ CycleTick
    \/ AddBoxTimeout
    \/ EntranceComplete
    \/ FadeComplete
    \/ TimelineDetections
    \/ TimelineClear
    \/ TimelineComplete
    \/ PreviewDestroy

SpecPreview == InitPreview /\ [][NextPreview]_vars
(* ----------------------------------------------------------------------- *)
(* Web3Service (web3.js): the wallet, its session and scan verification    *)
(* ----------------------------------------------------------------------- *)
\* most _initProviderQuiet calls awaiting getNetwork at once
MaxQuiet == 1

\* addresses MetaMask answers with
Accounts == {"0xA", "0xB"}

\* net.name || 'chain-' + net.chainId
Networks == {"mainnet", "chain-5"}

\* the module once _boot has run with nothing in localStorage
FreshWallet ==
    [_address |-> "null", _signer |-> "null", _network |-> "null",
     storage |-> [rv_wallet_address |-> "absent", rv_wallet_network |-> "absent"],
     connect |-> "idle",     \* the await a connectWallet call is suspended at
     quiet |-> 0,            \* _initProviderQuiet calls awaiting getNetwork
     hashing |-> "idle",     \* wallet in the payload a verifyOnChain call hashes
     result |-> [mode |-> "none"],  \* what the last verifyOnChain call returned
     left |-> FALSE]         \* disconnected, and no connectWallet call or
                             \* non-empty accountsChanged since

\* restoreSession() with a saved address, the network saved or not
RestoredWallet(saved, net) ==
    [FreshWallet EXCEPT
        !._address = saved,
        !._network = IF net = "absent" THEN "unknown" ELSE net,
        !.storage = [rv_wallet_address |-> saved, rv_wallet_network |-> net],
        !.quiet = 1]

\* _disconnect()
Disconnected(w) ==
    [w EXCEPT !._address = "null", !._signer = "null", !._network = "null",
              !.storage = [rv_wallet_address |-> "absent",
                           rv_wallet_network |-> "absent"]]

\* every variable but wallet
otherVars == <<rendererVars, preview, socket, analysis, dashboard>>

\* connectWallet() is called (ethers loaded, MetaMask available) and
\* suspends at await _provider.send('eth_requestAccounts', [])
ConnectWallet ==
    /\ wallet.connect = "idle"
    /\ wallet' = [wallet EXCEPT !.connect = "accounts", !.left = FALSE]
    /\ UNCHANGED otherVars

\* the await that connectWallet is suspended at resolves
ConnectResolves ==
    /\ wallet.connect # "idle"
    /\ \E account \in Accounts, net \in Networks :
           wallet' =
               CASE wallet.connect = "accounts" ->
                        [wallet EXCEPT !.connect = "signer"]
                 [] wallet.connect = "signer" ->
                        [wallet EXCEPT !._signer = "signer", !.connect = "address"]
                 [] wallet.connect = "address" ->
                        [wallet EXCEPT !._address = account, !.connect = "network"]
                 [] wallet.connect = "network" ->
                        [wallet EXCEPT
                            !._network = net,
                            !.storage = [rv_wallet_address |-> wallet._address,
                                         rv_wallet_network |-> net],
                            !.connect = "idle"]
    /\ UNCHANGED otherVars

\* the await rejects (the user closes the popup, the provider fails): the
\* catch rethrows
ConnectRejects ==
    /\ wallet.connect # "idle"
    /\ wallet' = [wallet EXCEPT !.connect = "idle"]
    /\ UNCHANGED otherVars

\* Web3Service.disconnect()
Disconnect ==
    /\ wallet' = [Disconnected(wallet) EXCEPT !.left = TRUE]
    /\ UNCHANGED otherVars

\* window.ethereum emits accountsChanged
AccountsChanged(accounts) ==
    /\ wallet' = IF accounts = <<>>
                 THEN [Disconnected(wallet) EXCEPT !.left = TRUE]
                 ELSE [wallet EXCEPT !._address = accounts[1],
                                     !.storage.rv_wallet_address = accounts[1],
                                     !.left = FALSE]
    /\ UNCHANGED otherVars

\* window.ethereum emits chainChanged: _initProviderQuiet() suspends at
\* await _provider.getNetwork()
ChainChanged ==
    /\ wallet.quiet < MaxQuiet
    /\ wallet' = [wallet EXCEPT !.quiet = @ + 1]
    /\ UNCHANGED otherVars

\* getNetwork of a quiet init resolves
QuietResolves ==
    /\ wallet.quiet > 0
    /\ \E net \in Networks :
           wallet' = [wallet EXCEPT !._network = net, !.quiet = @ - 1]
    /\ UNCHANGED otherVars

\* getNetwork of a quiet init rejects
QuietRejects ==
    /\ wallet.quiet > 0
    /\ wallet' = [wallet EXCEPT !.quiet = @ - 1]
    /\ UNCHANGED otherVars

\* verifyOnChain(scanData) is called: hashScanResult builds its payload and
\* suspends at await crypto.subtle.digest
VerifyOnChain ==
    /\ wallet.hashing = "idle"
    /\ wallet' = [wallet EXCEPT
                     !.hashing = IF wallet._address # "null"
                                 THEN wallet._address ELSE "anonymous",
                     !.result = [mode |-> "none"]]
    /\ UNCHANGED otherVars

\* the digest resolves: verifyOnChain builds its result
HashResolves ==
    /\ wallet.hashing # "idle"
    /\ wallet' =
           [wallet EXCEPT
               !.hashing = "idle",
               !.result =
                   IF wallet._address # "null"
                   THEN [verified |-> TRUE, txHash |-> "0x",
                         dataHash |-> [wallet |-> wallet.hashing],
                         chain |-> IF wallet._network # "null"
                                   THEN wallet._network ELSE "ethereum",
                         wallet |-> wallet._address, mode |-> "on-chain"]
                   ELSE [verified |-> FALSE, txHash |-> "null",
                         dataHash |-> [wallet |-> wallet.hashing],
                         chain |-> "null", wallet |-> "null",
                         mode |-> "off-chain"]]
    /\ UNCHANGED otherVars

InitWallet ==
    /\ Constructed(LayoutSizes, LayoutRatios)
    /\ preview = NoPreview
    /\ socket = Unused /\ analysis = Unused /\ dashboard = Unused
    /\ wallet \in {FreshWallet} \cup
                  {RestoredWallet(saved, net) :
                      saved \in Accounts, net \in Networks \cup {"absent"}}

NextWallet ==
    \/ ConnectWallet
    \/ ConnectResolves
    \/ ConnectRejects
    \/ Disconnect
    \/ \E accounts \in {<<>>} \cup {<<account>> : account \in Accounts} :
           AccountsChanged(accounts)
    \/ ChainChanged
    \/ QuietResolves
    \/ QuietRejects
    \/ VerifyOnChain
    \/ HashResolves

SpecWallet == InitWallet /\ [][NextWallet]_vars

(* ----------------------------------------------------------------------- *)
(* APIClient (api.js): the metrics WebSocket and its reconnection          *)
(* ----------------------------------------------------------------------- *)
\* most sockets alive that this.ws no longer refers to
MaxOrphans == 2

\* most pending timeouts whose handle was overwritten
MaxStrays == 2

\* this.maxReconnectAttempts = 5
MaxReconnectAttempts == 5

RECURSIVE Pow2(_)
Pow2(n) == IF n = 0 THEN 1 ELSE 2 * Pow2(n - 1)

\* a delay that doubles without the cap
ReconnectDelay_Uncapped(attempts) == 3000 * Pow2(attempts - 1)

\* Math.min(3000 * Math.pow(2, this.reconnectAttempts - 1), 30000)
ReconnectDelay(attempts) == Min(3000 * Pow2(attempts - 1), 30000)

NoSockets == [connecting |-> 0, open |-> 0, closing |-> 0]

\* window.api after DOMContentLoaded: constructed, connectWebSocket() called
\* in a visible tab
Connecting ==
    [hidden |-> FALSE,         \* document.hidden
     reconnectAttempts |-> 0,
     ws |-> "connecting",      \* readyState of this.ws, or "null"
     orphans |-> NoSockets,    \* sockets alive that this.ws no longer refers to
     timer |-> FALSE,          \* the timeout of this._reconnectTimer is pending
     strays |-> 0,             \* pending timeouts whose handle was overwritten
     delay |-> 0,              \* delay of the timeout scheduled last
     reconnects |-> 0,         \* connectWebSocket calls by timeouts, counted
     reset |-> FALSE]          \* until a socket opens or the tab turns visible

\* sockets alive besides this.ws
Orphans(s) == s.orphans.connecting + s.orphans.open + s.orphans.closing

\* connectWebSocket(): this.ws = new WebSocket(wsUrl); the socket it held
\* lives on if it was not closed
ConnectWebSocket(s) ==
    [s EXCEPT !.ws = "connecting",
              !.orphans = IF s.ws \in {"connecting", "open", "closing"}
                          THEN [@ EXCEPT ![s.ws] = @ + 1] ELSE @]

\* attemptReconnect(), the onclose handler
AttemptReconnect(s) ==
    IF s.hidden THEN s
    ELSE IF s.reconnectAttempts < MaxReconnectAttempts
    THEN [s EXCEPT !.reconnectAttempts = @ + 1,
                   !.delay = ReconnectDelay(s.reconnectAttempts + 1),
                   !.strays = IF s.timer THEN @ + 1 ELSE @,
                   !.timer = TRUE]
    ELSE s

\* every variable but socket
restVars == <<rendererVars, preview, wallet, analysis, dashboard>>

\* the socket of this.ws opens: onopen
Opens ==
    /\ socket.ws = "connecting"
    /\ socket' = [socket EXCEPT !.ws = "open", !.reconnectAttempts = 0,
                                !.reset = TRUE, !.reconnects = 0]
    /\ UNCHANGED restVars

\* a socket that this.ws no longer refers to opens: its onopen
OrphanOpens ==
    /\ socket.orphans.connecting > 0
    /\ socket' = [socket EXCEPT !.orphans.connecting = @ - 1,
                                !.orphans.open = @ + 1,
                                !.reconnectAttempts = 0,
                                !.reset = TRUE, !.reconnects = 0]
    /\ UNCHANGED restVars

\* the connection of this.ws fails, is refused or is closed by the server,
\* or its close() completes: onclose
Closes ==
    /\ socket.ws \in {"connecting", "open", "closing"}
    /\ socket.timer => socket.strays < MaxStrays
    /\ socket' = AttemptReconnect([socket EXCEPT !.ws = "closed"])
    /\ UNCHANGED restVars

\* the same for a socket that this.ws no longer refers to
OrphanCloses ==
    /\ socket.timer => socket.strays < MaxStrays
    /\ \E state \in {"connecting", "open", "closing"} :
           /\ socket.orphans[state] > 0
           /\ socket' = AttemptReconnect([socket EXCEPT !.orphans[state] = @ - 1])
    /\ UNCHANGED restVars

\* the timeout of this._reconnectTimer fires
TimerFires ==
    /\ socket.timer
    /\ Orphans(socket) < MaxOrphans
    /\ socket' = [ConnectWebSocket(socket) EXCEPT
                     !.timer = FALSE,
                     !.reconnects = IF socket.reset THEN @ ELSE @ + 1]
    /\ UNCHANGED restVars

\* a timeout whose handle was overwritten fires
StrayTimerFires ==
    /\ socket.strays > 0
    /\ Orphans(socket) < MaxOrphans
    /\ socket' = [ConnectWebSocket(socket) EXCEPT
                     !.strays = @ - 1,
                     !.reconnects = IF socket.reset THEN @ ELSE @ + 1]
    /\ UNCHANGED restVars

\* visibilitychange to hidden: clearTimeout(_reconnectTimer),
\* disconnectWebSocket()
TabHidden ==
    /\ ~socket.hidden
    /\ Orphans(socket) < MaxOrphans
    /\ socket' = [socket EXCEPT
                     !.hidden = TRUE,
                     !.timer = FALSE,
                     !.ws = "null",
                     !.orphans = IF socket.ws \in {"connecting", "open", "closing"}
                                 THEN [@ EXCEPT !.closing = @ + 1] ELSE @]
    /\ UNCHANGED restVars

\* visibilitychange to visible: reconnectAttempts = 0, connectWebSocket()
TabVisible ==
    /\ socket.hidden
    /\ socket' = [ConnectWebSocket([socket EXCEPT !.hidden = FALSE])
                     EXCEPT !.reconnectAttempts = 0,
                            !.reset = TRUE, !.reconnects = 0]
    /\ UNCHANGED restVars

InitSocket ==
    /\ Constructed(LayoutSizes, LayoutRatios)
    /\ preview = NoPreview
    /\ wallet = Unused /\ analysis = Unused /\ dashboard = Unused
    /\ socket = Connecting

NextSocket ==
    \/ Opens
    \/ OrphanOpens
    \/ Closes
    \/ OrphanCloses
    \/ TimerFires
    \/ StrayTimerFires
    \/ TabHidden
    \/ TabVisible

SpecSocket == InitSocket /\ [][NextSocket]_vars

(* ======================================================================= *)
(* app.js: the upload handlers and analyze()                               *)
(* ======================================================================= *)
\* most analyze() calls suspended at an await at the same time
MaxInFlight == 2

\* most analyze() calls in one run
MaxStarted == 3

\* most FileReader loads pending at the same time
MaxReads == 1

\* file.type of an accepted file
FileKinds == {"image", "video"}

\* the page once DOMContentLoaded has run and resetUpload() has left no file:
\* appState.analysisCount is 0 and the button is disabled
AppReady ==
    [phase |-> "app", currentFile |-> "none", reading |-> 0,
     disabled |-> TRUE, scanning |-> FALSE, calls |-> <<>>,
     analysisCount |-> 0, displayed |-> 0, feeds |-> 0, errors |-> 0,
     started |-> 0, outcome |-> "none"]

appOtherVars == <<rendererVars, preview, wallet, socket, dashboard>>

\* the sequence without its i-th element
Settled(calls, i) == SubSeq(calls, 1, i - 1) \o SubSeq(calls, i + 1, Len(calls))

\* handleFile(file) with a file that passes the type and size checks: an
\* image enables the button only in reader.onload, a video at once
HandleFile(kind) ==
    /\ analysis.phase = "app"
    /\ kind = "image" => analysis.reading < MaxReads
    /\ analysis' =
          IF kind = "image"
          THEN [analysis EXCEPT !.currentFile = kind, !.reading = @ + 1]
          ELSE [analysis EXCEPT !.currentFile = kind, !.disabled = FALSE]
    /\ UNCHANGED appOtherVars

\* reader.onload of handleFile
ReaderOnload ==
    /\ analysis.phase = "app"
    /\ analysis.reading > 0
    /\ analysis' = [analysis EXCEPT !.reading = @ - 1, !.disabled = FALSE]
    /\ UNCHANGED appOtherVars

\* resetUpload()
ResetUpload ==
    /\ analysis.phase = "app"
    /\ analysis' = [analysis EXCEPT !.currentFile = "none", !.disabled = TRUE]
    /\ UNCHANGED appOtherVars

\* the finally block of analyze(): scanner.stop() and the button re-enabled
Finally(a) == [a EXCEPT !.scanning = FALSE, !.disabled = FALSE]

\* the catch block of analyze(), then its finally block
Catch(a, i, why) ==
    Finally([a EXCEPT !.errors = @ + 1, !.calls = Settled(@, i),
                      !.outcome = why])

\* a click on the analyze button, which a disabled button does not deliver:
\* analyze() up to its first await
Analyze ==
    /\ analysis.phase = "app"
    /\ ~analysis.disabled
    /\ analysis.started < MaxStarted
    /\ IF analysis.currentFile = "none"
       THEN analysis' = [analysis EXCEPT !.errors = @ + 1,
                                         !.started = @ + 1,
                                         !.outcome = "nofile"]
       ELSE /\ Len(analysis.calls) < MaxInFlight
            /\ analysis' =
                  [analysis EXCEPT
                     !.disabled = TRUE, !.scanning = TRUE,
                     !.started = @ + 1, !.outcome = "none",
                     !.calls = Append(@, [kind |-> analysis.currentFile,
                                          stage |-> "fetch"])]
    /\ UNCHANGED appOtherVars

\* await fetch(...) of predict / analyzeVideo resolves, with response.ok or
\* without; the call suspends at await response.json()
FetchResolves(i, ok) ==
    /\ analysis.phase = "app"
    /\ i \in 1..Len(analysis.calls)
    /\ analysis.calls[i].stage = "fetch"
    /\ analysis' = [analysis EXCEPT
                      !.calls[i].stage = IF ok THEN "json" ELSE "detail",
                      !.outcome = "none"]
    /\ UNCHANGED appOtherVars

\* await fetch(...) rejects: the network failed
FetchRejects(i) ==
    /\ analysis.phase = "app"
    /\ i \in 1..Len(analysis.calls)
    /\ analysis.calls[i].stage = "fetch"
    /\ analysis' = Catch(analysis, i, "network")
    /\ UNCHANGED appOtherVars

\* await response.json() resolves. Of an error response: predict throws
\* Error(detail). Of an ok response: the image path calls displayResults,
\* which throws on a body without properties, and then counts; the video
\* path calls displayVideoFeed
JsonResolves(i, body) ==
    /\ analysis.phase = "app"
    /\ i \in 1..Len(analysis.calls)
    /\ analysis.calls[i].stage \in {"json", "detail"}
    /\ analysis' =
          IF analysis.calls[i].stage = "detail"
          THEN Catch(analysis, i, "http")
          ELSE IF body = "null"
          THEN Catch([analysis EXCEPT
                        !.displayed = IF analysis.calls[i].kind = "image"
                                      THEN @ + 1 ELSE @],
                     i, "render")
          ELSE IF analysis.calls[i].kind = "image"
          THEN Finally([analysis EXCEPT
                          !.displayed = @ + 1, !.analysisCount = @ + 1,
                          !.calls = Settled(@, i), !.outcome = "image"])
          ELSE Finally([analysis EXCEPT
                          !.feeds = @ + 1,
                          !.calls = Settled(@, i), !.outcome = "video"])
    /\ UNCHANGED appOtherVars

\* await response.json() rejects: the body is not JSON
JsonRejects(i) ==
    /\ analysis.phase = "app"
    /\ i \in 1..Len(analysis.calls)
    /\ analysis.calls[i].stage \in {"json", "detail"}
    /\ analysis' = Catch(analysis, i,
                         IF analysis.calls[i].stage = "detail"
                         THEN "http" ELSE "body")
    /\ UNCHANGED appOtherVars

InitAnalyze ==
    /\ Constructed(LayoutSizes, LayoutRatios)
    /\ preview = NoPreview
    /\ wallet = Unused /\ socket = Unused /\ dashboard = Unused
    /\ analysis = AppReady

NextAnalyze ==
    \/ \E kind \in FileKinds : HandleFile(kind)
    \/ ReaderOnload
    \/ ResetUpload
    \/ Analyze
    \/ \E i \in 1..MaxInFlight, ok \in BOOLEAN : FetchResolves(i, ok)
    \/ \E i \in 1..MaxInFlight : FetchRejects(i)
    \/ \E i \in 1..MaxInFlight, body \in {"object", "null"} : JsonResolves(i, body)
    \/ \E i \in 1..MaxInFlight : JsonRejects(i)

SpecAnalyze == InitAnalyze /\ [][NextAnalyze]_vars

(* ======================================================================= *)
(* Next.js dashboard: onDrop and the credit balance                        *)
(* ======================================================================= *)
\* most uploads whose request is in flight at the same time
MaxUploads == 2

\* useState(100)
InitialCredits == 100

\* credits < 5, prev - 5
Cost == 5

\* the component after its first render
Mounted ==
    [phase |-> "dashboard", credits |-> InitialCredits, isAnalyzing |-> FALSE,
     result |-> FALSE, videoData |-> FALSE, requests |-> <<>>,
     toast |-> "none"]

dashOtherVars == <<rendererVars, preview, wallet, socket, analysis>>

\* onDrop with one accepted file, up to await fetch; the callback is rebuilt
\* on every change of credits, so it reads the committed balance
OnDrop(isVideo) ==
    /\ dashboard.phase = "dashboard"
    /\ IF dashboard.credits < Cost
       THEN dashboard' = [dashboard EXCEPT !.toast = "insufficient"]
       ELSE /\ Len(dashboard.requests) < MaxUploads
            /\ dashboard' =
                  [dashboard EXCEPT
                     !.isAnalyzing = TRUE, !.result = FALSE,
                     !.videoData = FALSE, !.toast = "none",
                     !.requests = Append(@, [isVideo |-> isVideo,
                                             stage |-> "fetch"])]
    /\ UNCHANGED dashOtherVars

\* the catch block of onDrop, then its finally block
UploadFailed(d, i) ==
    [d EXCEPT !.toast = "error", !.isAnalyzing = FALSE,
              !.requests = Settled(@, i)]

\* await fetch(...) resolves: a response that is not ok throws, an ok one
\* suspends the call at await response.json()
UploadResolves(i, ok) ==
    /\ dashboard.phase = "dashboard"
    /\ i \in 1..Len(dashboard.requests)
    /\ dashboard.requests[i].stage = "fetch"
    /\ dashboard' = IF ok
                    THEN [dashboard EXCEPT !.requests[i].stage = "json",
                                           !.toast = "none"]
                    ELSE UploadFailed(dashboard, i)
    /\ UNCHANGED dashOtherVars

\* await fetch(...) rejects
UploadRejects(i) ==
    /\ dashboard.phase = "dashboard"
    /\ i \in 1..Len(dashboard.requests)
    /\ dashboard.requests[i].stage = "fetch"
    /\ dashboard' = UploadFailed(dashboard, i)
    /\ UNCHANGED dashOtherVars

\* await response.json() resolves: the result is stored,
\* setCredits(prev => prev - 5) is applied to the committed balance, then the
\* finally block runs
DataResolves(i) ==
    /\ dashboard.phase = "dashboard"
    /\ i \in 1..Len(dashboard.requests)
    /\ dashboard.requests[i].stage = "json"
    /\ dashboard' =
          [dashboard EXCEPT
             !.result = IF dashboard.requests[i].isVideo THEN @ ELSE TRUE,
             !.videoData = IF dashboard.requests[i].isVideo THEN TRUE ELSE @,
             !.credits = @ - Cost, !.toast = "complete",
             !.isAnalyzing = FALSE, !.requests = Settled(@, i)]
    /\ UNCHANGED dashOtherVars

\* await response.json() rejects
DataRejects(i) ==
    /\ dashboard.phase = "dashboard"
    /\ i \in 1..Len(dashboard.requests)
    /\ dashboard.requests[i].stage = "json"
    /\ dashboard' = UploadFailed(dashboard, i)
    /\ UNCHANGED dashOtherVars

InitDashboard ==
    /\ Constructed(LayoutSizes, LayoutRatios)
    /\ preview = NoPreview
    /\ wallet = Unused /\ socket = Unused /\ analysis = Unused
    /\ dashboard = Mounted

NextDashboard ==
    \/ \E isVideo \in BOOLEAN : OnDrop(isVideo)
    \/ \E i \in 1..MaxUploads, ok \in BOOLEAN : UploadResolves(i, ok)
    \/ \E i \in 1..MaxUploads : UploadRejects(i)
    \/ \E i \in 1..MaxUploads : DataResolves(i)
    \/ \E i \in 1..MaxUploads : DataRejects(i)

SpecDashboard == InitDashboard /\ [][NextDashboard]_vars


(* ======================================================================= *)
(* Claims                                                                  *)
(* ======================================================================= *)
DrawDetectionsStep == \E list \in DetLists : DrawDetections(list)

\* C1: for every interleaving of drawDetections calls and frame callbacks, at
\* most one _animateBoxes frame callback is pending for the renderer: a new
\* cycle cancels the request left by the previous one.
C1_AtMostOnePendingFrame == Len(pending) <= 1

\* C2: once the frame loop has stopped (global progress 1.0, isAnimating
\* false), every box of the list, whatever the list's length and the box's
\* index, has reached local progress 1 (the Complete state).
C2_AllBoxesCompleteWhenStopped ==
    (~isAnimating /\ animationProgress = One)
        => \A i \in 1..Len(detections) :
               LocalProgress(i - 1, animationProgress) = Duration

\* C3: for image dimensions and display dimensions all > 0, _getTransform
\* returns fitScale = min(cw/W, ch/H), scaledW = W*fitScale, scaledH =
\* H*fitScale and the offsets (cw-scaledW)/2, (ch-scaledH)/2; both offsets are
\* >= 0, and exactly one is 0 unless the aspect ratios are equal, when both
\* are 0.
C3_FitTransform ==
    (transformCall # NoCall /\ transformCall.cw > 0 /\ transformCall.ch > 0)
        => LET cw == FromInt(transformCall.cw)
               ch == FromInt(transformCall.ch)
               W == FromInt(transformCall.origW)
               H == FromInt(transformCall.origH)
               t == transformCall.t
               sameAspect == transformCall.cw * transformCall.origH
                                 = transformCall.ch * transformCall.origW
           IN  /\ t.fitScale = FMin(FDiv(cw, W), FDiv(ch, H))
               /\ t.scaledW = FMul(W, t.fitScale)
               /\ t.scaledH = FMul(H, t.fitScale)
               /\ t.offsetX = FDiv(FSub(cw, t.scaledW), FromInt(2))
               /\ t.offsetY = FDiv(FSub(ch, t.scaledH), FromInt(2))
               /\ FCmp(t.offsetX, FZero) >= 0
               /\ FCmp(t.offsetY, FZero) >= 0
               /\ IF sameAspect
                  THEN t.offsetX = FZero /\ t.offsetY = FZero
                  ELSE (t.offsetX = FZero) # (t.offsetY = FZero)

\* C4: _mapBox de-normalizes, then scales, then offsets: a detection is
\* normalized iff all four of x1, y1, x2, y2 are <= 1.0, and then x is first
\* multiplied by the original width and y by the original height; otherwise
\* the coordinates are pixels; then screenX = x1*fitScale+offsetX, screenY =
\* y1*fitScale+offsetY, width = (x2-x1)*fitScale, height = (y2-y1)*fitScale.
\* On a 1000x500 image shown at 500x250, normalized (0.1,0.1,0.5,0.5) maps to
\* (50,25)-(250,125) and pixel (100,100,300,300) to (50,50)-(150,150).
C4_OnExampleDisplay ==
    /\ mapCall # NoCall
    /\ mapCall.origW = 1000 /\ mapCall.origH = 500
    /\ mapCall.cw = 500 /\ mapCall.ch = 250

C4_ScreenBox(left, top, right, bottom) ==
    /\ mapCall.box.sx = FromInt(left)
    /\ mapCall.box.sy = FromInt(top)
    /\ FAdd(mapCall.box.sx, mapCall.box.sw) = FromInt(right)
    /\ FAdd(mapCall.box.sy, mapCall.box.sh) = FromInt(bottom)

C4_MapBoxOrder ==
    /\ mapCall # NoCall
           => LET d == mapCall.det
                  t == mapCall.t
                  raw == <<FromNum(d.x1), FromNum(d.y1),
                           FromNum(d.x2), FromNum(d.y2)>>
                  normalized == \A k \in 1..4 : FCmp(raw[k], FromInt(1)) <= 0
                  W == IF normalized THEN FromInt(mapCall.origW) ELSE FromInt(1)
                  H == IF normalized THEN FromInt(mapCall.origH) ELSE FromInt(1)
                  x1 == FMul(raw[1], W)
                  y1 == FMul(raw[2], H)
                  x2 == FMul(raw[3], W)
                  y2 == FMul(raw[4], H)
              IN  /\ mapCall.box.sx = FAdd(FMul(x1, t.fitScale), t.offsetX)
                  /\ mapCall.box.sy = FAdd(FMul(y1, t.fitScale), t.offsetY)
                  /\ mapCall.box.sw = FMul(FSub(x2, x1), t.fitScale)
                  /\ mapCall.box.sh = FMul(FSub(y2, y1), t.fitScale)
    /\ (C4_OnExampleDisplay /\ mapCall.det = DetectionPool[1])
           => C4_ScreenBox(50, 25, 250, 125)
    /\ (C4_OnExampleDisplay /\ mapCall.det = DetectionPool[2])
           => C4_ScreenBox(50, 50, 150, 150)

\* the normalized example has been mapped on the 1000x500 image at 500x250
C4_Witness ==
    /\ C4_OnExampleDisplay
    /\ mapCall.det = DetectionPool[1]
    /\ mapCall.t.fitScale = FromNum(Num(1, 2))
    /\ mapCall.t.offsetX = FZero
    /\ mapCall.t.offsetY = FZero
    /\ C4_ScreenBox(50, 25, 250, 125)

\* C5: no render pass reaches _getTransform or a drawing call while the
\* container's display width or height is 0.
C5_NoRenderAtZeroSize ==
    frame.kind = "frame" => frame.cw > 0 /\ frame.ch > 0

\* C6: a second _syncCanvasSize with unchanged rounded CSS width and height
\* (and unchanged device pixel ratio) does not assign canvas.width and
\* canvas.height again.
C6_ResizeIdempotent ==
    [][(/\ _displayW' = Round(rect'[1]) /\ _displayH' = Round(rect'[2])
        /\ _displayW' = _displayW /\ _displayH' = _displayH
        /\ Dpr(devicePixelRatio') = Dpr(devicePixelRatio))
       => ~resized']_vars

\* C7: between two consecutive drawDetections calls the local progress of
\* every box is non-decreasing over successive rendered frames: each frame
\* shows the boxes at the current global progress, and no handler other than
\* drawDetections lowers any box's local progress.
C7_LocalProgressNonDecreasing ==
    [][/\ frame'.kind = "frame" =>
            /\ frame'.progress = animationProgress'
            /\ \A i \in DOMAIN frame'.boxes :
                   frame'.boxes[i].progress
                       = LocalProgress(i - 1, animationProgress')
       /\ ~DrawDetectionsStep =>
            \A i \in 0..(MaxBoxes - 1) :
                LocalProgress(i, animationProgress')
                    >= LocalProgress(i, animationProgress)]_vars

C7_Witness ==
    /\ frame.kind = "frame"
    /\ framesShown = 2
    /\ Len(frame.boxes) = MaxBoxes
    /\ frame.boxes[1].progress = Duration
    /\ frame.boxes[4].progress > 0
    /\ frame.boxes[4].progress < Duration

\* C8 as stated: drawDetections resets the animation state, so the first
\* frame rendered after it shows every box at or near the start of its
\* animation; read as weakly as it can be: that frame shows no box whose
\* animation is already complete.
C8_FirstFrameAtStart ==
    (framesShown = 1 /\ frame.kind = "frame")
        => \A i \in DOMAIN frame.boxes : frame.boxes[i].progress < Duration

\* C8 amended: drawDetections leaves global progress at one step with
\* isAnimating true and a frame request outstanding, also when the previous
\* animation had finished; when the 2D view is active and an image is loaded
\* the call itself renders the first frame of the new list, every box at
\* local progress of at most one step.
C8_DrawDetectionsRestarts ==
    [][DrawDetectionsStep =>
          /\ animationProgress' = Step
          /\ isAnimating'
          /\ _rafId' \in Handles(pending')
          /\ (image # <<>> /\ viewMode = "2d") =>
                /\ framesShown' = 1
                /\ frame'.kind = "frame"
                /\ frame'.progress = Step
                /\ \A i \in DOMAIN frame'.boxes :
                       frame'.boxes[i].progress <= Step]_vars

\* a drawDetections call has just painted the first frame of its list
C8_Witness ==
    /\ framesShown = 1
    /\ frame.kind = "frame"
    /\ Len(frame.boxes) = MaxBoxes
    /\ animationProgress = Step
    /\ isAnimating
    /\ Len(pending) = 1

\* clamp((g - i * 0.08) / 0.6, 0, 1) over Duration, g in thousandths
C9_Clamp(g, i) ==
    IF g <= i * Stagger THEN 0
    ELSE IF g >= i * Stagger + Duration THEN Duration
    ELSE g - i * Stagger

C10_StaggerOrdering ==
    frame.kind = "frame" =>
        \A i, j \in DOMAIN frame.boxes :
            (i < j /\ frame.boxes[j].progress > 0)
                => /\ frame.boxes[i].progress > 0
                   /\ frame.boxes[i].progress >= frame.boxes[j].progress

\* a frame in which a later box has started and is behind an earlier one
C10_Witness ==
    /\ frame.kind = "frame"
    /\ Len(frame.boxes) >= 2
    /\ frame.boxes[2].progress > 0
    /\ frame.boxes[1].progress > frame.boxes[2].progress

(* ----------------------------------------------------------------------- *)
(* Measures of a drawn box: sums and differences of Numbers without        *)
(* rounding, and the length of a path                                      *)
(* ----------------------------------------------------------------------- *)
\* a + b exactly
ExactAdd(a, b) ==
    IF a.man = <<>> THEN b
    ELSE IF b.man = <<>> THEN a
    ELSE LET e == IF a.exp <= b.exp THEN a.exp ELSE b.exp
             ma == NShl(a.man, a.exp - e)
             mb == NShl(b.man, b.exp - e)
             c == NCmp(ma, mb)
         IN  IF a.sign = b.sign THEN Canon(a.sign, NAdd(ma, mb), e)
             ELSE IF c = 0 THEN FZero
             ELSE IF c > 0 THEN Canon(a.sign, NSub(ma, mb), e)
             ELSE Canon(b.sign, NSub(mb, ma), e)

\* |a - b| exactly
Distance(a, b) == [ExactAdd(a, FNeg(b)) EXCEPT !.sign = 1]

\* -1, 0, 1 as a < b, a = b, a > b, for exact values
ExactCmp(a, b) ==
    LET d == ExactAdd(a, FNeg(b)) IN IF d.man = <<>> THEN 0 ELSE d.sign

\* a and b differ by at most slack
Near(a, b, slack) == ExactCmp(Distance(a, b), slack) <= 0

\* the length of the path from its point j on, its segments measured along
\* the axes
RECURSIVE PathLengthFrom(_, _)
PathLengthFrom(path, j) ==
    IF j >= Len(path) THEN FZero
    ELSE ExactAdd(ExactAdd(Distance(path[j + 1].x, path[j].x),
                           Distance(path[j + 1].y, path[j].y)),
                  PathLengthFrom(path, j + 1))

PathLength(path) == PathLengthFrom(path, 1)

\* 2^-36 of a pixel
RoundingSlack == [sign |-> 1, man |-> <<1>>, exp |-> -36]

\* a box with positive mapped width and height, at local progress in (0, 1]
C11_Box ==
    /\ boxCall # NoCall
    /\ FCmp(boxCall.drawn.box.sw, FZero) > 0
    /\ FCmp(boxCall.drawn.box.sh, FZero) > 0
    /\ FCmp(boxCall.drawn.progress, FZero) > 0

\* the path of the box starts at the top-left corner and runs clockwise along
\* the top, right, bottom and left edge, an edge started only after the one
\* before it has reached its corner, and its length is 2 * (w + h) * p; the
\* corner where the left edge starts and the length are met within slack
C11_Clockwise(slack) ==
    LET b == boxCall.drawn.box
        path == boxCall.drawn.path
        n == Len(path)
        right == FAdd(b.sx, b.sw)
        bottom == FAdd(b.sy, b.sh)
        length == FMul(FMul(FromInt(2), FAdd(b.sw, b.sh)), boxCall.drawn.progress)
    IN  /\ n \in 2..5
        /\ path[1] = MoveTo(b.sx, b.sy)
        /\ \A j \in 2..n : path[j].op = "lineTo"
        /\ path[2].y = b.sy /\ FCmp(path[2].x, b.sx) >= 0
        /\ n >= 3 => /\ path[2].x = right
                     /\ path[3].x = right /\ FCmp(path[3].y, b.sy) >= 0
        /\ n >= 4 => /\ path[3].y = bottom
                     /\ path[4].y = bottom /\ FCmp(path[4].x, right) <= 0
        /\ n >= 5 => /\ Near(path[4].x, b.sx, slack)
                     /\ path[5].x = b.sx /\ FCmp(path[5].y, bottom) <= 0
        /\ Near(PathLength(path), length, slack)

\* C11 as stated: for a box of positive width w and height h at local
\* progress p in (0, 1] the stroked path is open, starts at the top-left
\* corner, runs clockwise top, right, bottom, left, each edge started only
\* after the one before it is fully drawn, the last one truncated, and its
\* total length is exactly 2 * (w + h) * p.
C11_ExactStrokeLength == C11_Box => C11_Clockwise(FZero)

\* C11 amended: the same path, its total length being 2 * (w + h) * p up to
\* the rounding of the coordinates (within 2^-36 of a pixel).
C11_StrokeWithinRounding == C11_Box => C11_Clockwise(RoundingSlack)

\* a box whose bottom edge is being drawn, the path's length off the
\* computed one by a rounding error
C11_Witness ==
    /\ C11_Box
    /\ Len(boxCall.drawn.path) = 4
    /\ FCmp(boxCall.drawn.progress, FromInt(1)) < 0
    /\ ~C11_Clockwise(FZero)
    /\ C11_Clockwise(RoundingSlack)

\* the glow pass: the path stroked a second time, with a shadow blur
C12_Glow == boxCall.drawn.strokes = 2 /\ FCmp(boxCall.drawn.shadowBlur, FZero) > 0

\* the label chip sits above the top-left corner of the box and reads the
\* class name, a space (both left out when the class name is empty), the
\* integer nearest to confidence * 100 (the larger of two equally near) and %
C12_LabelChip ==
    LET label == boxCall.drawn.label
        b == boxCall.drawn.box
        half == [sign |-> 1, man |-> <<1>>, exp |-> -1]
        scaled == FMul(FromNum(boxCall.detection.confidence), FromInt(100))
        percent == label.text[Len(label.text) - 1]
    IN  /\ label.x = b.sx
        /\ Near(ExactAdd(ExactAdd(label.y, label.height), FromInt(4)), b.sy,
                RoundingSlack)
        /\ FCmp(label.height, FZero) > 0
        /\ label.text \in
               IF boxCall.detection.class_name = ""
               THEN {<<n, "%">> : n \in 0..100}
               ELSE {<<boxCall.detection.class_name, " ", n, "%">> : n \in 0..100}
        /\ ExactCmp(Distance(FromInt(percent), scaled), half) <= 0
        /\ ExactCmp(Distance(FromInt(percent + 1), scaled), half) > 0

\* C12 as stated: the glow pass and the label chip are drawn exactly in the
\* Complete state (local progress >= 1); in the Drawing state (0 < local
\* progress < 1) only the truncated stroke is drawn.
C12_DecorationsOnlyWhenComplete ==
    boxCall # NoCall =>
        LET complete == FCmp(boxCall.drawn.progress, FromInt(1)) >= 0
        IN  /\ C12_Glow <=> complete
            /\ boxCall.drawn.label # NoLabel <=> complete
            /\ complete => C12_LabelChip

\* C12 amended: the glow pass is drawn whenever the box is drawn (local
\* progress > 0), with a blur of 10 * progress; the label chip is drawn
\* exactly in the Complete state; a hidden box draws nothing.
C12_GlowWhenDrawnLabelWhenComplete ==
    boxCall # NoCall =>
        LET progress == boxCall.drawn.progress
            complete == FCmp(progress, FromInt(1)) >= 0
        IN  /\ C12_Glow <=> FCmp(progress, FZero) > 0
            /\ C12_Glow => boxCall.drawn.shadowBlur = FMul(FromInt(10), progress)
            /\ ~C12_Glow => boxCall.drawn.strokes = 0
            /\ boxCall.drawn.label # NoLabel <=> complete
            /\ complete => C12_LabelChip

\* a complete box with its glow and its label: confidence 0.575 reads 57%
C12_Witness ==
    /\ boxCall # NoCall
    /\ boxCall.drawn.progress = FromInt(1)
    /\ C12_Glow
    /\ boxCall.drawn.label.text = <<"crack", " ", 57, "%">>

(* ----------------------------------------------------------------------- *)
(* The list behind a render pass                                           *)
(* ----------------------------------------------------------------------- *)
\* the detections a frame draws, in the order it draws them
FrameList(f) == [i \in DOMAIN f.boxes |-> f.boxes[i].detection]

\* C13: drawDetections(L) replaces the list: the frame it paints itself and
\* every render pass after it (animation frame, resize, view-mode switch,
\* reload) draws the boxes of the stored list and of no other, and the stored
\* list is L until a later drawDetections, init3DView or clear stores another;
\* no frame painted after the call shows the prior list.
C13_ListFullyReplaced ==
    [][/\ \A list \in DetLists : DrawDetections(list) => detections' = list
       /\ frame'.kind = "frame" => FrameList(frame') = detections'
       /\ detections' # detections =>
              \/ DrawDetectionsStep
              \/ \E list \in DetLists : Init3DView(list)
              \/ Clear]_vars

\* a later frame of a list that replaced another while a callback of the
\* earlier cycle was outstanding
C13_Witness ==
    /\ frame.kind = "frame"
    /\ framesShown = 2
    /\ Len(pending) = 2
    /\ Len(detections) >= 2
    /\ FrameList(frame) = detections
    /\ frame.progress > Step

(* ----------------------------------------------------------------------- *)
(* The resize path                                                         *)
(* ----------------------------------------------------------------------- *)
ResizeStep == \E r \in LayoutSizes, raw \in LayoutRatios : Resize(r, raw)

\* the surface follows the new layout and the animation is left alone
C14_SyncOnly ==
    /\ _displayW' = Round(rect'[1])
    /\ _displayH' = Round(rect'[2])
    /\ UNCHANGED <<detections, animationProgress, isAnimating, pending>>

\* the pass drew the image and the boxes for the new display size
C14_Redrawn ==
    /\ frame'.kind = "frame"
    /\ frame'.cw = _displayW' /\ frame'.ch = _displayH'
    /\ frame'.origW = origW /\ frame'.origH = origH
    /\ frame'.progress = animationProgress
    /\ FrameList(frame') = detections

\* C14 as stated: a resize notification re-syncs the surface and redraws if
\* an image is loaded, draws nothing if none is, and leaves the detection
\* list, animationProgress and isAnimating unchanged.
C14_RedrawIffImageLoaded ==
    [][ResizeStep =>
          /\ C14_SyncOnly
          /\ image # <<>> => C14_Redrawn
          /\ image = <<>> => frame' = NoFrame]_vars

\* C14 amended: the redraw happens if an image is loaded and the view mode is
\* '2d'; with no image, or in the 3D view, the notification only re-syncs the
\* surface and draws nothing.
C14_RedrawIffImageLoadedIn2D ==
    [][ResizeStep =>
          /\ C14_SyncOnly
          /\ (image # <<>> /\ viewMode = "2d") => C14_Redrawn
          /\ (image = <<>> \/ viewMode # "2d") => frame' = NoFrame]_vars

\* a resize in the middle of an animation: the boxes redrawn at the new size
\* with the progress they had
C14_Witness ==
    /\ resized
    /\ frame.kind = "frame"
    /\ frame.cw = _displayW /\ frame.ch = _displayH
    /\ isAnimating /\ pending # <<>>
    /\ animationProgress > 0
    /\ frame.progress = animationProgress
    /\ detections # <<>>

(* ----------------------------------------------------------------------- *)
(* The surface after _syncCanvasSize                                       *)
(* ----------------------------------------------------------------------- *)
\* min(devicePixelRatio, 2) in quarters, an undefined ratio counting as 1
C15_CappedRatio ==
    IF devicePixelRatio = 0 THEN 4
    ELSE IF devicePixelRatio > DprCap THEN DprCap ELSE devicePixelRatio

\* the stored display size is the rounded CSS size of the wrapper
C15_DisplaySize ==
    /\ 10 * _displayW - 5 <= rect[1] /\ rect[1] < 10 * _displayW + 5
    /\ 10 * _displayH - 5 <= rect[2] /\ rect[2] < 10 * _displayH + 5

\* C15 as stated: after every _syncCanvasSize the backing resolution equals
\* the rounded CSS size times min(devicePixelRatio, 2), _displayW/_displayH
\* are the rounded CSS size, and a recomputed resolution comes with the
\* context transform re-set to that ratio.
C15_BackingEqualsProduct ==
    /\ C15_DisplaySize
    /\ 4 * canvasSize[1] = _displayW * C15_CappedRatio
    /\ 4 * canvasSize[2] = _displayH * C15_CappedRatio
    /\ resized => ctxScale = C15_CappedRatio

\* C15 amended: the backing resolution is the integer part of that product
\* (a canvas dimension is an integer), equal to it when the product is whole.
C15_BackingIsWholePartOfProduct ==
    /\ C15_DisplaySize
    /\ 4 * canvasSize[1] <= _displayW * C15_CappedRatio
    /\ _displayW * C15_CappedRatio < 4 * (canvasSize[1] + 1)
    /\ 4 * canvasSize[2] <= _displayH * C15_CappedRatio
    /\ _displayH * C15_CappedRatio < 4 * (canvasSize[2] + 1)
    /\ resized => ctxScale = C15_CappedRatio

\* an image shown at 301 x 200 CSS pixels and ratio 1.5: a buffer 451 wide
C15_Witness ==
    /\ resized
    /\ image # <<>>
    /\ devicePixelRatio = 6
    /\ rect = <<3012, 1998>>
    /\ _displayW = 301 /\ _displayH = 200
    /\ canvasSize = <<451, 300>>
    /\ ctxScale = 6

(* ----------------------------------------------------------------------- *)
(* The empty list                                                          *)
(* ----------------------------------------------------------------------- *)
\* C16: drawDetections with an empty or missing list completes like any other
\* call: it stores the empty list and starts the loop; each of its frames
\* shows the base image and no box; and its frame loop terminates, with no
\* request left outstanding.
C16_EmptyListDrawsImageOnly ==
    /\ [][\A arg \in Arguments :
             (OrEmpty(arg) = <<>> /\ DrawDetections(OrEmpty(arg))) =>
                 /\ detections' = <<>>
                 /\ isAnimating' /\ Len(pending') = 1
                 /\ frame' = NoFrame <=> (image = <<>> \/ viewMode # "2d")]_vars
    /\ []((detections = <<>> /\ frame # NoFrame) =>
              /\ frame.boxes = <<>>
              /\ <<frame.origW, frame.origH>> = image)
    /\ (isAnimating /\ detections = <<>>)
           ~> (~isAnimating /\ pending = <<>> /\ detections = <<>>)

\* the loop of an empty list has come to its end with the image on display
C16_Witness ==
    /\ detections = <<>>
    /\ frame.kind = "frame" /\ frame.boxes = <<>>
    /\ frame.progress = One
    /\ ~isAnimating /\ animationProgress = One
    /\ pending = <<>>

(* ----------------------------------------------------------------------- *)
(* Inverted boxes                                                          *)
(* ----------------------------------------------------------------------- *)
\* a box with mapped width or height <= 0, at local progress in (0, 1]
C17_Box ==
    /\ boxCall # NoCall
    /\ \/ FCmp(boxCall.drawn.box.sw, FZero) <= 0
       \/ FCmp(boxCall.drawn.box.sh, FZero) <= 0
    /\ FCmp(boxCall.drawn.progress, FZero) > 0

\* the four-edge rule for a box of any orientation: from the first corner
\* along the edges in the order top, right, bottom, left, for a length of
\* 2 * (w + h) * p in absolute value
C17_FourEdgeRule ==
    LET b == boxCall.drawn.box
        path == boxCall.drawn.path
        n == Len(path)
        right == FAdd(b.sx, b.sw)
        bottom == FAdd(b.sy, b.sh)
        length == FMul(FMul(FromInt(2), FAdd(b.sw, b.sh)), boxCall.drawn.progress)
    IN  /\ n \in 2..5
        /\ path[1] = MoveTo(b.sx, b.sy)
        /\ \A j \in 2..n : path[j].op = "lineTo"
        /\ path[2].y = b.sy
        /\ n >= 3 => path[2].x = right /\ path[3].x = right
        /\ n >= 4 => path[3].y = bottom /\ path[4].y = bottom
        /\ n >= 5 => Near(path[4].x, b.sx, RoundingSlack) /\ path[5].x = b.sx
        /\ Near(PathLength(path), [length EXCEPT !.sign = 1], RoundingSlack)

\* p/q < r/s for detection coordinates
C17_Less(a, b) == a[1] * b[2] < b[1] * a[2]

C18_RendererState ==
    <<rect, devicePixelRatio, canvasSize, ctxScale, _displayW, _displayH,
      image, origW, origH, detections, viewMode, animationProgress,
      isAnimating, _rafId, pending>>

C19_LoadFailureSurfaced ==
    [][ImageError =>
          /\ load'.errorShown
          /\ ~load'.unhandled
          /\ UNCHANGED <<image, origW, origH, detections, animationProgress,
                         isAnimating, _rafId, pending>>]_vars

\* C20: when gsap is not defined, the hero preview degrades to an instant
\* draw and does not fail: no handler throws, no box is ever in an entrance
\* or fade tween (each is added and removed at once), no timeline exists, a
\* destroyed preview shows no box, at most one interval timer runs, and
\* exactly one runs once initialisation and texture generation are over.
C20_InstantWithoutGsap ==
    (preview # NoPreview /\ ~preview.gsap) =>
        /\ ~preview.error
        /\ preview.entering = 0
        /\ preview.fading = 0
        /\ preview.cycleTl = "none"
        /\ preview.timers <= 1
        /\ (preview.phase = "running" /\ ~preview.awaiting => preview.timers = 1)
        /\ (preview.phase = "destroyed" => preview.boxes = 0)

\* without gsap, the legacy cycle has ticked: the boxes of two detections
\* are in the viewport under the one timer
C20_Witness ==
    /\ preview # NoPreview
    /\ ~preview.gsap
    /\ preview.phase = "running"
    /\ preview.timers = 1
    /\ preview.boxes >= 5
    /\ preview.adds = 0

\* C23: in every reachable state 0 <= animationProgress <= 1, for the count
\* of increments the model keeps and for the Number the field holds after
\* that many additions of 0.025; drawDetections leaves a progress above 0
\* that never returns to 0, and from then on isAnimating = false implies
\* animationProgress = 1, for every interleaving of drawDetections, frame
\* callbacks, resizes, view-mode switches and clear.
C23_ProgressBounded ==
    /\ [](/\ 0 <= animationProgress
          /\ animationProgress <= One
          /\ FCmp(FZero, ProgressNumber(animationProgress)) <= 0
          /\ FCmp(ProgressNumber(animationProgress), FromInt(1)) <= 0
          /\ (animationProgress # 0 /\ ~isAnimating =>
                 /\ animationProgress = One
                 /\ ProgressNumber(animationProgress) = FromInt(1)))
    /\ [][/\ (DrawDetectionsStep => animationProgress' > 0)
          /\ (animationProgress # 0 => animationProgress' # 0)]_vars

\* the loop ran to its end, then clear() emptied the renderer
C23_Witness ==
    /\ ~isAnimating
    /\ animationProgress = One
    /\ image = <<>>
    /\ detections = <<>>
    /\ pending = <<>>
    /\ _rafId # 0

\* C24: clear() cancels every pending animation-frame request and leaves the
\* image null and the detection list empty, whatever drawDetections calls
\* preceded it, so that no frame callback runs until the next drawDetections;
\* and nothing is drawn while no image is loaded.
C24_ClearStopsTheAnimation ==
    /\ [](image = <<>> => frame = NoFrame)
    /\ [][Clear => /\ pending' = <<>>
                   /\ image' = <<>>
                   /\ detections' = <<>>]_vars

(* ----------------------------------------------------------------------- *)
(* Placement of the preview's boxes                                        *)
(* ----------------------------------------------------------------------- *)
\* two boxes of the viewport share a point of their interiors
Overlap(a, b) ==
    /\ a.left < b.left + b.width
    /\ b.left < a.left + a.width
    /\ a.top < b.top + b.height
    /\ b.top < a.top + a.height

\* some draws make a box of cell c and a box of cell d overlap
CanOverlap ==
    [c \in Cells, d \in Cells |->
        \E size \in PreviewSizes, r \in Draws, s \in Draws :
            Overlap(BoxStyle(c, size, r), BoxStyle(d, size, s))]

\* C21: at every moment no two bounding boxes present in the preview
\* viewport overlap, whatever the random draws of their sizes and jitters: the
\* boxes present lie in pairwise distinct cells, and boxes of distinct cells
\* do not overlap, in the synced cycle and in the legacy cycle alike.
C21_NoOverlap ==
    preview # NoPreview =>
        \A c \in Cells, d \in Cells :
            (IF c = d THEN preview.placed[c] >= 2
             ELSE preview.placed[c] > 0 /\ preview.placed[d] > 0)
                => ~CanOverlap[c, d]

\* boxes of distinct cells never overlap; two boxes of one cell can
C21_ZonesDisjoint ==
    \A c \in Cells, d \in Cells : CanOverlap[c, d] <=> c = d

\* while a timeline runs, no cell holds two boxes
C21_SyncedCycleDistinctCells ==
    (preview # NoPreview /\ preview.cycleTl # "none") =>
        \A c \in Cells : preview.placed[c] <= 1

(* ----------------------------------------------------------------------- *)
(* Web3Service                                                             *)
(* ----------------------------------------------------------------------- *)
\* C22: verifyOnChain never fails for lack of a wallet; it returns an
\* on-chain result (verified, a transaction hash, the connected address) or
\* an off-chain result (not verified, txHash, chain and wallet null), and the
\* wallet in the hashed payload is the wallet the result reports, also when
\* the wallet connects or disconnects while the hash is computed.
C22_ResultMatchesPayload ==
    (wallet # Unused /\ wallet.result.mode # "none") =>
        LET r == wallet.result
        IN  /\ r.mode \in {"on-chain", "off-chain"}
            /\ r.mode = "on-chain" =>
                   /\ r.verified
                   /\ r.txHash # "null"
                   /\ r.wallet \in Accounts
                   /\ r.dataHash.wallet = r.wallet
            /\ r.mode = "off-chain" =>
                   /\ ~r.verified
                   /\ r.txHash = "null"
                   /\ r.chain = "null"
                   /\ r.wallet = "null"
                   /\ r.dataHash.wallet = "anonymous"

\* the result is shaped by the wallet connected when the digest resolves
C22_ResultFollowsWalletAtReturn ==
    [][(wallet.hashing # "idle" /\ wallet'.hashing = "idle") =>
          /\ wallet'.result.wallet = wallet._address
          /\ wallet'.result.verified = (wallet._address # "null")
          /\ wallet'.result.mode =
                 (IF wallet._address # "null" THEN "on-chain" ELSE "off-chain")]_vars

\* C27: after disconnect() or an empty accountsChanged, and until the next
\* connectWallet call or non-empty accountsChanged, the wallet is not
\* connected, address and network are null and both localStorage keys are
\* absent, also when a connectWallet or a quiet init was awaiting a response;
\* and in every state a non-null address equals the stored address.
C27_DisconnectSticks ==
    wallet # Unused =>
        /\ wallet.left =>
               /\ wallet._address = "null"
               /\ wallet._network = "null"
               /\ wallet.storage.rv_wallet_address = "absent"
               /\ wallet.storage.rv_wallet_network = "absent"
        /\ wallet._address # "null" =>
               wallet.storage.rv_wallet_address = wallet._address

(* ----------------------------------------------------------------------- *)
(* APIClient: reconnection of the metrics WebSocket                        *)
(* ----------------------------------------------------------------------- *)
\* reconnect timeouts pending
PendingTimers(s) == (IF s.timer THEN 1 ELSE 0) + s.strays

\* sockets connecting or open
LiveSockets(s) ==
    (IF s.ws \in {"connecting", "open"} THEN 1 ELSE 0)
        + s.orphans.connecting + s.orphans.open

\* C25: reconnection is bounded.  A reconnect is scheduled only by a close
\* event in a visible tab with reconnectAttempts < 5; it raises the count by
\* one and the n-th is delayed by 3000, 6000, 12000, 24000, 30000 ms; the
\* count returns to 0 only when a socket opens or the tab turns visible; so
\* while neither happens, at most 5 reconnects are attempted, and after the
\* fifth nothing is pending.
C25_ReconnectionBounded ==
    /\ [](socket # Unused =>
            /\ socket.reconnectAttempts \in 0..5
            /\ (~socket.reset =>
                  /\ socket.reconnects + PendingTimers(socket)
                         <= socket.reconnectAttempts
                  /\ socket.reconnects <= 5))
    /\ [][/\ PendingTimers(socket') > PendingTimers(socket) =>
                /\ ~socket.hidden
                /\ socket.reconnectAttempts < 5
                /\ socket'.reconnectAttempts = socket.reconnectAttempts + 1
                /\ socket'.delay =
                       <<3000, 6000, 12000, 24000, 30000>>[socket'.reconnectAttempts]
                /\ PendingTimers(socket') = PendingTimers(socket) + 1
                /\ LiveSockets(socket') + socket'.orphans.closing
                       < LiveSockets(socket) + socket.orphans.closing
                           + (IF socket.ws = "closing" THEN 1 ELSE 0)
          /\ socket'.reconnectAttempts # socket.reconnectAttempts =>
                \/ PendingTimers(socket') > PendingTimers(socket)
                \/ /\ socket'.reconnectAttempts = 0
                   /\ \/ socket.hidden /\ ~socket'.hidden
                      \/ socket'.ws = "open" /\ socket.ws = "connecting"
                      \/ socket'.orphans.open > socket.orphans.open]_vars

\* five reconnects have failed in a visible tab: the client has stopped
C25_Witness ==
    /\ socket # Unused
    /\ ~socket.reset
    /\ ~socket.hidden
    /\ socket.reconnects = 5
    /\ socket.reconnectAttempts = 5
    /\ socket.delay = 30000
    /\ socket.ws = "closed"
    /\ PendingTimers(socket) = 0
    /\ Orphans(socket) = 0

\* C26: at any time at most one WebSocket is open or connecting and at most
\* one reconnect timer is pending, for every interleaving of close events,
\* timers and tab hidden/visible transitions; while the tab is hidden no
\* connection is open and no reconnect is scheduled.
C26_OneSocketOneTimer ==
    socket # Unused =>
        /\ LiveSockets(socket) <= 1
        /\ PendingTimers(socket) <= 1
        /\ socket.hidden =>
               /\ socket.ws # "open"
               /\ socket.orphans.open = 0
               /\ PendingTimers(socket) = 0

\* an analyze() call is suspended at an await
InFlight == analysis.phase = "app" /\ analysis.calls # <<>>

\* this step settles an analyze() call
Settles == analysis.phase = "app" /\ Len(analysis'.calls) < Len(analysis.calls)

\* while an analysis is in flight the button is disabled and the scanning
\* overlay is active
BusyWhileInFlight == InFlight => analysis.disabled /\ analysis.scanning

\* every settlement stops the scanner and re-enables the button; a failed
\* request (network failure, HTTP error response, body that is not JSON) shows
\* an error, calls no displayResults and leaves analysisCount; analysisCount
\* moves only by 1, and only when an image analysis succeeds
SettlesAsStated ==
    /\ Settles => ~analysis'.scanning /\ ~analysis'.disabled
    /\ Settles /\ analysis'.outcome \in {"network", "http", "body"} =>
          /\ analysis'.errors = analysis.errors + 1
          /\ analysis'.displayed = analysis.displayed
          /\ analysis'.analysisCount = analysis.analysisCount
    /\ Settles /\ analysis'.outcome = "image" =>
          /\ analysis'.analysisCount = analysis.analysisCount + 1
          /\ analysis'.displayed = analysis.displayed + 1
          /\ analysis'.errors = analysis.errors
    /\ analysis.phase = "app" /\ analysis'.analysisCount # analysis.analysisCount =>
          Settles /\ analysis'.outcome = "image"

\* C28: from the start of an analysis until it settles the analyze button is
\* disabled and the scanning overlay is active; every outcome stops the
\* scanner and re-enables the button; a failure shows an error, calls no
\* displayResults and leaves analysisCount, which grows by exactly 1 per
\* successful image analysis
C28_AnalyzeContract == []BusyWhileInFlight /\ [][SettlesAsStated]_vars

\* the part of C28 about the settlement of one call, which holds
C28_SettlementAsStated == [][SettlesAsStated]_vars

\* the first part of C28 as long as no file is chosen, no pending file load
\* completes and no other call settles while an analysis is in flight: the
\* step that starts the analysis establishes it
C28_BusyAtStart ==
    [][analysis.phase = "app" /\ Len(analysis'.calls) > Len(analysis.calls) =>
          analysis'.disabled /\ analysis'.scanning]_vars

\* the balance is not negative
CreditsNotNegative == dashboard.phase = "dashboard" => dashboard.credits >= 0

\* the balance changes only by -5 and only in the step that completes an
\* analysis; a drop with credits < 5 sends no request; a failed analysis
\* leaves the balance
DeductsAsStated ==
    /\ dashboard.phase = "dashboard" /\ dashboard'.credits # dashboard.credits =>
          /\ dashboard'.credits = dashboard.credits - Cost
          /\ dashboard'.toast = "complete"
          /\ Len(dashboard'.requests) = Len(dashboard.requests) - 1
    /\ dashboard.phase = "dashboard" /\ dashboard.credits < Cost =>
          Len(dashboard'.requests) <= Len(dashboard.requests)
    /\ dashboard.phase = "dashboard" /\ dashboard'.toast = "error" =>
          dashboard'.credits = dashboard.credits

\* C29: the credit balance never becomes negative and changes only by -5 per
\* successfully completed analysis; an upload with credits < 5 is refused
\* with no request sent and a failed analysis deducts nothing, for every
\* interleaving of uploads whose requests are in flight at the same time
C29_CreditsContract == []CreditsNotNegative /\ [][DeductsAsStated]_vars

\* the part of C29 about single steps, which holds
C29_DeductionAsStated == [][DeductsAsStated]_vars

\* the balance stays at or above minus 5 for each upload beyond the first
\* that can be in flight
C29_OverdraftBounded ==
    dashboard.phase = "dashboard" =>
       dashboard.credits >= 0 - Cost * (MaxUploads - 1)

====
